---- MODULE Spec2Model ----
(***************************************************************************)
(* A model of the toolchain / project abstraction and build orchestration  *)
(* pipeline: the build decorator and run_command (util.py, decorators.py), *)
(* the mcux exit-code classification (mcux/compiler.py), target resolution *)
(* (projectbase.py), the SDK manifest resolver (sdk_manifest.py), the      *)
(* Eclipse .cproject parser (eclipse.py) and the toolchain registry        *)
(* (compilers/__init__.py).                                                *)
(*                                                                         *)
(* Strings the code inspects character by character (target names, build   *)
(* paths, version strings, example ids) are sequences of one-character     *)
(* strings.  Each component has a specification of its own (SpecBuild,     *)
(* SpecTarget, ...); the variables of the other components stay idle.      *)
(***************************************************************************)
EXTENDS Integers, Sequences, FiniteSets, TLC

VARIABLES
    \* ---- one build invocation: build.wraper + run_command + Timer thread
    b_in,          \* the invocation's inputs and environment (fixed at Init)
    pc,            \* main thread position in wraper / run_command
    tpc,           \* timer thread position in Timer.run / _timeout_trigger
    timer,         \* "none" | "armed" | "cancelled" | "fired"
    proc,          \* child process: "none" | "running" | "exited"
    exitstatus,    \* exit status of the child once it has exited
    reaped,        \* the main thread has waited for the child
    killed,        \* the child was terminated by _timeout_trigger
    is_timeout,    \* timer_result["is_timeout"]
    returncode,    \* run_command's local returncode (NoCode = None)
    br,            \* the BuildResult under construction (result, output)
    outcome,       \* how build_project ended: "none" | "returned" | an exception
    warned,        \* logging.warning was called by the artifact resolution
    env,           \* the log file and output location as the wraper found them
    at_deadline,   \* the child's state when the timer's interval ended ("none"
                   \* while it has not ended)
    \* ---- one map_target call on a project: ProjectBase.map_target
    targets,       \* the project's targets, in declaration order
    input_target,  \* the string map_target is called with
    mapped,        \* what the call gave: a target name or InvalidTarget
    mpc,           \* "call" before the call, "done" after it
    \* ---- one find_max_version call: SDKManifest.find_max_version
    found,         \* the manifests SDKManifest.find returned, in discovery order
    selected,      \* what find_max_version returned (NoManifest = None)
    vpc,           \* "call" before the call, "done" after it
    \* ---- a manifest document and find_linked_projects calls on it
    examples,      \* the example records (attributes), in document order
    boardsize,     \* how many of them belong to the first board's <examples>
    cores,         \* the ./devices/device/core elements, in document order
    lp_arg,        \* the example id of the last find_linked_projects call
    lp_result,     \* what that call returned, or AttributeError
    lp_calls,      \* the number of calls made
    \* ---- an Eclipse project directory and the Project parsed from it
    ecl_project,   \* the text of the <name> element of .project
    ecl_configs,   \* the configuration[@buildArtefactType] elements of .cproject
    ecl_name,      \* Project._name
    ecl_conf,      \* Project._conf, the targetsinfo dict
    ecl_targets,   \* Project._targets, the dict's keys in insertion order
    ecl_pc,        \* "call" before Project(path), then "done" or "raised"
    \* ---- the toolchain registry of the compilers package
    sys_modules,   \* the compilers.<name> modules imported so far
    attached,      \* the toolchains whose Compiler class has its Project set
    reg_call,      \* the last registry call: the function and its argument
    reg_outcome,   \* what that call returned or raised
    reg_calls,     \* the number of registry calls made
    \* ---- a directory tree and one find_projects call on it
    tree,          \* the tree on disk: folder names, project files, manifest
    scan_in,       \* the call's recursive and manifests_dir arguments, and the
                   \* manifests found under the manifests directories
    scan_filter,   \* the call's include_tools and exclude_tools arguments
    scan_pc,       \* "call", then "filter" once discovery is over, then "done"
    scanned,       \* the directories handed to _find_projects, in order
    projects,      \* the mapping toolchain name -> list of projects
    count,         \* the returned total, <<>> when the call raised
    \* ---- vendor package projects constructed against one SDK manifest
    SDK_MANIFEST,  \* the class field Project.SDK_MANIFEST: set or None
    pkg_world,     \* the manifest on disk: its format version, its record of
                   \* the example, whether an ancestor directory holds it
    pkg_call,      \* the files the last Project(prjpath) call was made on
    pkg_obj,       \* the fields of the object that call worked on
    pkg_enabled,   \* what is_enabled gave when line 54 read it
    pkg_outcome,   \* "constructed", or the exception that left the constructor
    pkg_count,     \* the number of constructor calls made
    \* ---- a path of directories and one find_from_parents call on it
    levels,        \* the manifests of each directory on a path, the
                   \* filesystem root first
    origin,        \* the place on that path of the starting directory
    located,       \* what find_from_parents returned (NoManifest = None)
    fpc,           \* "call" before the call, "done" after it
    \* ---- find_example calls on the manifest document above
    q_arg,         \* the example id of the last find_example call
    q_result,      \* what that call returned or raised
    q_calls,       \* the number of find_example calls made
    \* ---- one ProjectBase.fromdir call
    fd_path,       \* the path of one fromdir call: a directory with its files or a file,
                   \* and whether the path lies in a boards tree
    fd_result,     \* the projects the call returned, or the exception it raised
    fd_pc,         \* "call" before the call, "done" after it
    \* ---- the process-wide manifest override across scans and constructions
    base_field,    \* the class attribute ProjectBase.SDK_MANIFEST
    mcux_field,    \* the attribute SDK_MANIFEST of the mcux Project class itself,
                   \* "unset" while the class inherits the base attribute
    ov_last,       \* the last call: find_projects or Project(path), its inputs and
                   \* the manifest each package project was bound to
    ov_events,     \* the number of calls made in the process
    \* ---- the build properties of a package project across builds
    build_properties,\* Project.build_properties of one package Project object
    bp_kwargs,     \* the keyword options of the last build call on it
    bp_target,     \* the target of that call
    bp_file,       \* the properties written to the file of that call
    bp_builds      \* the number of build calls made on the object

buildVars == <<b_in, pc, tpc, timer, proc, exitstatus, reaped, killed,
               is_timeout, returncode, br, outcome, warned, env, at_deadline>>

targetVars == <<targets, input_target, mapped, mpc>>

versionVars == <<found, selected, vpc>>

linkedVars == <<examples, boardsize, cores, lp_arg, lp_result, lp_calls>>

eclipseVars ==
    <<ecl_project, ecl_configs, ecl_name, ecl_conf, ecl_targets, ecl_pc>>

registryVars == <<sys_modules, attached, reg_call, reg_outcome, reg_calls>>

scanVars == <<tree, scan_in, scan_filter, scan_pc, scanned, projects, count>>

packageVars ==
    <<SDK_MANIFEST, pkg_world, pkg_call, pkg_obj, pkg_enabled, pkg_outcome,
      pkg_count>>

parentsVars == <<levels, origin, located, fpc>>

queryVars == <<q_arg, q_result, q_calls>>

fromdirVars == <<fd_path, fd_result, fd_pc>>

overrideVars ==
    <<base_field, mcux_field, ov_last, ov_events>>

propsVars ==
    <<build_properties, bp_kwargs, bp_target, bp_file, bp_builds>>

vars ==
    <<buildVars, targetVars, versionVars, linkedVars, eclipseVars,
      registryVars, scanVars, packageVars, parentsVars, queryVars,
      fromdirVars, overrideVars, propsVars>>

\* The variables of the other components, which a component's actions leave
\* alone.
nonBuildVars ==
    <<targetVars, versionVars, linkedVars, eclipseVars, registryVars,
      scanVars, packageVars, parentsVars, queryVars, fromdirVars,
      overrideVars, propsVars>>

nonTargetVars ==
    <<buildVars, versionVars, linkedVars, eclipseVars, registryVars,
      scanVars, packageVars, parentsVars, queryVars, fromdirVars,
      overrideVars, propsVars>>

nonVersionVars ==
    <<buildVars, targetVars, linkedVars, eclipseVars, registryVars,
      scanVars, packageVars, parentsVars, queryVars, fromdirVars,
      overrideVars, propsVars>>

nonLinkedVars ==
    <<buildVars, targetVars, versionVars, eclipseVars, registryVars,
      scanVars, packageVars, parentsVars, queryVars, fromdirVars,
      overrideVars, propsVars>>

nonEclipseVars ==
    <<buildVars, targetVars, versionVars, linkedVars, registryVars,
      scanVars, packageVars, parentsVars, queryVars, fromdirVars,
      overrideVars, propsVars>>

nonRegistryVars ==
    <<buildVars, targetVars, versionVars, linkedVars, eclipseVars,
      scanVars, packageVars, parentsVars, queryVars, fromdirVars,
      overrideVars, propsVars>>

nonScanVars ==
    <<buildVars, targetVars, versionVars, linkedVars, eclipseVars,
      registryVars, packageVars, parentsVars, queryVars, fromdirVars,
      overrideVars, propsVars>>

nonPackageVars ==
    <<buildVars, targetVars, versionVars, linkedVars, eclipseVars,
      registryVars, scanVars, parentsVars, queryVars, fromdirVars,
      overrideVars, propsVars>>

nonParentsVars ==
    <<buildVars, targetVars, versionVars, linkedVars, eclipseVars,
      registryVars, scanVars, packageVars, queryVars, fromdirVars,
      overrideVars, propsVars>>

nonQueryVars ==
    <<buildVars, targetVars, versionVars, linkedVars, eclipseVars,
      registryVars, scanVars, packageVars, parentsVars, fromdirVars,
      overrideVars, propsVars>>

nonFromdirVars ==
    <<buildVars, targetVars, versionVars, linkedVars, eclipseVars,
      registryVars, scanVars, packageVars, parentsVars, queryVars,
      overrideVars, propsVars>>

nonOverrideVars ==
    <<buildVars, targetVars, versionVars, linkedVars, eclipseVars,
      registryVars, scanVars, packageVars, parentsVars, queryVars,
      fromdirVars, propsVars>>

nonPropsVars ==
    <<buildVars, targetVars, versionVars, linkedVars, eclipseVars,
      registryVars, scanVars, packageVars, parentsVars, queryVars,
      fromdirVars, overrideVars>>

----------------------------------------------------------------------------
(* Small helpers on sequences.                                             *)

Range(s) == {s[i] : i \in 1..Len(s)}

----------------------------------------------------------------------------
(* Strings as sequences of one-character strings: str.strip, str.split,    *)
(* str.lower and the "in" substring test.                                  *)

\* The alphabet: a letter in both cases and the blank.
Chars == {"D", "d", " "}

IsSpace(c) == c = " "

\* str.lower() on one character.
LowerChar(c) == IF c = "D" THEN "d" ELSE c

\* str.lower()
LowerStr(s) == [i \in 1..Len(s) |-> LowerChar(s[i])]

\* str.strip()
RECURSIVE Strip(_)
Strip(s) ==
    IF s = <<>> THEN <<>>
    ELSE IF IsSpace(Head(s)) THEN Strip(Tail(s))
    ELSE IF IsSpace(s[Len(s)]) THEN Strip(SubSeq(s, 1, Len(s) - 1))
    ELSE s

\* str.split() without arguments: the non-empty words between runs of blanks.
\* cur is the word being read.
RECURSIVE SplitWords(_, _)
SplitWords(s, cur) ==
    IF s = <<>> THEN (IF cur = <<>> THEN <<>> ELSE <<cur>>)
    ELSE IF IsSpace(Head(s))
    THEN (IF cur = <<>> THEN <<>> ELSE <<cur>>) \o SplitWords(Tail(s), <<>>)
    ELSE SplitWords(Tail(s), Append(cur, Head(s)))

Split(s) == SplitWords(s, <<>>)

\* a in b, for strings
IsSubstr(a, b) ==
    \E i \in 0..(Len(b) - Len(a)) : SubSeq(b, i + 1, i + Len(a)) = a

\* All strings over Chars of length at most n.
StringsUpTo(n) == UNION {[1..k -> Chars] : k \in 0..n}

----------------------------------------------------------------------------
(* Target resolution: compilers/projectbase.py                             *)

\* What map_target's caller sees when InvalidTarget is raised.
InvalidTarget == <<"InvalidTarget">>

\* The least element of a non-empty set of indices: the first loop iteration
\* that returns.
Least(S) == CHOOSE i \in S : \A j \in S : i <= j

\* map_target with the operands of the substring test exchanged.
map_target_swapped(tgts, input) ==
    LET x == Strip(input)
        first == {i \in 1..Len(tgts) :
                    x = tgts[i] \/ x \in Range(Split(tgts[i]))}
        second == {i \in 1..Len(tgts) :
                    IsSubstr(LowerStr(tgts[i]), LowerStr(x))}
    IN  IF first # {} THEN tgts[Least(first)]
        ELSE IF second # {} THEN tgts[Least(second)]
        ELSE InvalidTarget

\* ProjectBase.map_target(input_target) on a project whose targets are tgts.
\* First loop: equal to the name or one of its whitespace-delimited words.
\* Second loop: case-insensitive substring.  Otherwise InvalidTarget.
map_target(tgts, input) ==
    LET x == Strip(input)
        first == {i \in 1..Len(tgts) :
                    x = tgts[i] \/ x \in Range(Split(tgts[i]))}
        second == {i \in 1..Len(tgts) :
                    IsSubstr(LowerStr(x), LowerStr(tgts[i]))}
    IN  IF first # {} THEN tgts[Least(first)]
        ELSE IF second # {} THEN tgts[Least(second)]
        ELSE InvalidTarget

\* Target names a project may declare (configuration names, stripped by
\* parse_cproject): single words in either case, and names of several words.
TargetNames ==
    {<<"d">>, <<"D">>, <<"d", "d">>, <<"D", "d">>,
     <<"d", " ", "D">>, <<"D", " ", "d">>, <<"d", "d", " ", "d">>}

\* The most targets a modelled project declares.
MaxTargets == 2

\* The longest string map_target is called with.
MaxInputLen == 3

\* Lists of distinct target names (the keys of a dict, in insertion order).
TargetLists ==
    UNION {{t \in [1..k -> TargetNames] :
              \A i, j \in 1..k : i # j => t[i] # t[j]} : k \in 0..MaxTargets}

TargetIdle ==
    /\ targets = <<>>
    /\ input_target = <<>>
    /\ mapped = <<>>
    /\ mpc = "idle"

TargetInit ==
    /\ targets \in TargetLists
    /\ input_target \in StringsUpTo(MaxInputLen)
    /\ mapped = <<>>
    /\ mpc = "call"

\* One call of project.map_target(input_target).
MapTarget ==
    /\ mpc = "call"
    /\ mapped' = map_target(targets, input_target)
    /\ mpc' = "done"
    /\ UNCHANGED <<nonTargetVars, targets, input_target>>

TargetNext == MapTarget

----------------------------------------------------------------------------
(* Manifest version selection: sdk_manifest.py, packaging.version          *)

\* int() of one decimal digit.
DigitVal(c) ==
    CASE c = "0" -> 0 [] c = "1" -> 1 [] c = "2" -> 2 [] c = "3" -> 3
      [] c = "4" -> 4 [] c = "5" -> 5 [] c = "6" -> 6 [] c = "7" -> 7
      [] c = "8" -> 8 [] c = "9" -> 9

\* The release segment of a version string "N(.N)*" as a tuple of integers;
\* cur is the number being read.
RECURSIVE Release(_, _)
Release(s, cur) ==
    IF s = <<>> THEN <<cur>>
    ELSE IF Head(s) = "." THEN <<cur>> \o Release(Tail(s), 0)
    ELSE Release(Tail(s), 10 * cur + DigitVal(Head(s)))

\* packaging's comparison key drops the trailing zeros of the release.
RECURSIVE DropTrailingZeros(_)
DropTrailingZeros(t) ==
    IF t # <<>> /\ t[Len(t)] = 0
    THEN DropTrailingZeros(SubSeq(t, 1, Len(t) - 1))
    ELSE t

\* version.parse(s), as the key Version objects are compared by.
VersionKey(s) == DropTrailingZeros(Release(s, 0))

\* Tuple comparison a <= b.
RECURSIVE TupleLessEq(_, _)
TupleLessEq(a, b) ==
    IF a = <<>> THEN TRUE
    ELSE IF b = <<>> THEN FALSE
    ELSE IF Head(a) # Head(b) THEN Head(a) < Head(b)
    ELSE TupleLessEq(Tail(a), Tail(b))

\* version.parse(a) <= version.parse(b)
VersionLessEq(a, b) == TupleLessEq(VersionKey(a), VersionKey(b))

\* sorted(manifests, key=lambda m: version.parse(m.manifest_version)), a
\* stable sort.  A manifest's place is one more than the number of manifests
\* that sort before it: those of a smaller version, and those of an equal
\* version that come earlier in the list.
SortedByVersion(seq) ==
    LET n == Len(seq)
        le(i, j) == VersionLessEq(seq[i].format_version, seq[j].format_version)
        before(j, i) == IF le(i, j) /\ le(j, i) THEN j < i ELSE le(j, i)
        place(i) == 1 + Cardinality({j \in 1..n : j # i /\ before(j, i)})
    IN  [k \in 1..n |-> seq[CHOOSE i \in 1..n : place(i) = k]]

\* The format_version attributes of the modelled manifests.
V30 == <<"3", ".", "0">>
V31 == <<"3", ".", "1">>
V38 == <<"3", ".", "8">>
V310 == <<"3", ".", "1", "0">>
V3 == <<"3">>

FormatVersions == {V30, V31, V38, V310, V3}

\* The most manifest files a modelled search finds.
MaxManifests == 3

\* What SDKManifest.find returns: manifests of distinct files, in the order
\* the glob yields them.
FoundLists ==
    UNION {{f \in [1..k -> [file : 1..MaxManifests,
                            format_version : FormatVersions]] :
              \A i, j \in 1..k : i # j => f[i].file # f[j].file} :
           k \in 0..MaxManifests}

\* None, as find_max_version's result.
NoManifest == [file |-> 0, format_version |-> <<>>]

\* find_max_version with the first element of the sorted list taken.
find_max_version_first(manifests) ==
    IF manifests = <<>> THEN NoManifest
    ELSE SortedByVersion(manifests)[1]

\* SDKManifest.find_max_version, given what SDKManifest.find returned:
\* sorted(manifests, key=lambda m: version.parse(m.manifest_version))[-1]
find_max_version(manifests) ==
    IF manifests = <<>> THEN NoManifest
    ELSE LET sorted == SortedByVersion(manifests)
         IN  sorted[Len(sorted)]

VersionIdle ==
    /\ found = <<>>
    /\ selected = NoManifest
    /\ vpc = "idle"

VersionInit ==
    /\ found \in FoundLists
    /\ selected = NoManifest
    /\ vpc = "call"

\* One call of SDKManifest.find_max_version(dirs).
FindMaxVersion ==
    /\ vpc = "call"
    /\ selected' = find_max_version(found)
    /\ vpc' = "done"
    /\ UNCHANGED <<nonVersionVars, found>>

VersionNext == FindMaxVersion

----------------------------------------------------------------------------
(* Linked projects of a manifest: sdk_manifest.py                          *)

\* Example ids and core names, as strings of characters.
IdH4 == <<"h", "4">>
IdH7 == <<"h", "7">>
IdH47 == <<"h", "4", "7">>

ExampleIds == {IdH4, IdH7, IdH47}

Core4 == <<"4">>
Core7 == <<"7">>

\* An absent attribute (None); an empty attribute value is equally falsy.
NoAttr == <<>>

\* str.endswith
EndsWith(str, suffix) ==
    /\ Len(suffix) <= Len(str)
    /\ SubSeq(str, Len(str) - Len(suffix) + 1, Len(str)) = suffix

\* The most example records a modelled manifest holds.
MaxExamples == 3

\* The most find_linked_projects calls made on one manifest.
MaxCalls == 1

\* An example element as parsed: its id, its linked_projects attribute, whether
\* it has an <external type="xml"> child, and its _index_ attribute (absent
\* in the document: _get_linked_projects adds it).
ExampleRecords ==
    [id : ExampleIds, linked_projects : ExampleIds \cup {NoAttr},
     external : BOOLEAN, index : {NoAttr}]

\* The example records of a manifest: distinct ids, in document order.
ExampleLists ==
    UNION {{e \in [1..k -> ExampleRecords] :
              \A i, j \in 1..k : i # j => e[i].id # e[j].id} :
           k \in 0..MaxExamples}

\* The core elements of a manifest: none, a slave core listed last, or
\* several cores with slave roles.
CoreLists ==
    {<<>>,
     <<[name |-> Core7, slave_roles |-> FALSE],
       [name |-> Core4, slave_roles |-> TRUE]>>,
     <<[name |-> Core7, slave_roles |-> TRUE],
       [name |-> Core4, slave_roles |-> TRUE]>>}

\* SDKManifest.slave_core: the name of the first core with slave roles, or None.
slave_core(cs) ==
    IF \E i \in 1..Len(cs) : cs[i].slave_roles
    THEN cs[Least({i \in 1..Len(cs) : cs[i].slave_roles})].name
    ELSE NoAttr

\* _find_example_node("id", value): the position of the first example with
\* that id, 0 for None.
find_example_node(exs, id) ==
    IF \E i \in 1..Len(exs) : exs[i].id = id
    THEN Least({i \in 1..Len(exs) : exs[i].id = id})
    ELSE 0

\* list(parent).index(node): the node's place among its own board's examples.
IndexInParent(pos, bsize) == IF pos <= bsize THEN pos - 1 ELSE pos - 1 - bsize

\* _get_linked_projects with a node that is met again put in front once more
\* before the walk ends.
RECURSIVE get_linked_projects_revisit(_, _, _)
get_linked_projects_revisit(exs, id, results) ==
    LET node == find_example_node(exs, id) IN
    IF node = 0 THEN results
    ELSE IF node \in Range(results) THEN <<node>> \o results
    ELSE IF exs[node].linked_projects = NoAttr THEN <<node>> \o results
    ELSE get_linked_projects_revisit(exs, exs[node].linked_projects,
                                     <<node>> \o results)

\* _get_linked_projects(example_id, results): the chain as positions in the
\* document, each new node put in front.
RECURSIVE get_linked_projects(_, _, _)
get_linked_projects(exs, id, results) ==
    LET node == find_example_node(exs, id) IN
    IF node = 0 THEN results
    ELSE IF node \in Range(results) THEN results
    ELSE IF exs[node].linked_projects = NoAttr THEN <<node>> \o results
    ELSE get_linked_projects(exs, exs[node].linked_projects,
                             <<node>> \o results)

\* The example records after _get_linked_projects stored _index_ in every node
\* of the chain.
WithIndex(exs, bsize, chain) ==
    [i \in 1..Len(exs) |->
        IF i \in Range(chain)
        THEN [exs[i] EXCEPT !.index = <<IndexInParent(i, bsize)>>]
        ELSE exs[i]]

\* sorted(nodes, key=lambda x: int(x.attrib["_index_"])), a stable sort of the
\* chain's positions.
SortedByIndex(chain, bsize) ==
    LET n == Len(chain)
        key(i) == IndexInParent(chain[i], bsize)
        before(j, i) == IF key(j) = key(i) THEN j < i ELSE key(j) < key(i)
        place(i) == 1 + Cardinality({j \in 1..n : j # i /\ before(j, i)})
    IN  [k \in 1..n |-> chain[CHOOSE i \in 1..n : place(i) = k]]

\* The slave reordering of find_linked_projects (lines 240-251): the first
\* node whose id ends with the slave core name is exchanged with the first
\* node.
SlaveFirst(exs, nodes, core) ==
    LET hits == {i \in 1..Len(nodes) : EndsWith(exs[nodes[i]].id, core)}
        idx == IF hits = {} THEN 1 ELSE Least(hits)
    IN  IF core = NoAttr \/ idx = 1 THEN nodes
        ELSE [k \in 1..Len(nodes) |->
                IF k = 1 THEN nodes[idx]
                ELSE IF k = idx THEN nodes[1]
                ELSE nodes[k]]

\* What the caller sees when _get_example_info fails on a node without an
\* <external type="xml"> child (None has no attribute 'find').
AttributeError == [raised |-> TRUE, list |-> <<>>]

\* A returned list of example infos.
Returned(infos) == [raised |-> FALSE, list |-> infos]

\* _get_example_info(node): the attributes plus the companion file entry.
get_example_info(rec) ==
    [id |-> rec.id, linked_projects |-> rec.linked_projects,
     index |-> rec.index, example_xml |-> TRUE]

\* The nodes find_linked_projects converts, in the order it converts them.
linked_nodes(exs, bsize, cs, id) ==
    SlaveFirst(exs, SortedByIndex(get_linked_projects(exs, id, <<>>), bsize),
               slave_core(cs))

\* SDKManifest.find_linked_projects(example_id) on the records as they are
\* after the chain walk.
find_linked_projects(exs, bsize, cs, id) ==
    LET nodes == linked_nodes(exs, bsize, cs, id)
        after == WithIndex(exs, bsize, nodes)
    IN  IF \E k \in 1..Len(nodes) : ~after[nodes[k]].external
        THEN AttributeError
        ELSE Returned([k \in 1..Len(nodes) |->
                         get_example_info(after[nodes[k]])])

LinkedIdle ==
    /\ examples = <<>>
    /\ boardsize = 0
    /\ cores = <<>>
    /\ lp_arg = NoAttr
    /\ lp_result = Returned(<<>>)
    /\ lp_calls = 0

LinkedInit ==
    /\ examples \in ExampleLists
    /\ boardsize \in (IF examples = <<>> THEN {0} ELSE 1..Len(examples))
    /\ cores \in CoreLists
    /\ lp_arg = NoAttr
    /\ lp_result = Returned(<<>>)
    /\ lp_calls = 0

\* One call of manifest.find_linked_projects(example_id).
FindLinkedProjects ==
    /\ lp_calls < MaxCalls
    /\ \E id \in ExampleIds :
        /\ lp_arg' = id
        /\ lp_result' = find_linked_projects(examples, boardsize, cores, id)
        /\ examples' = WithIndex(examples, boardsize,
                                 get_linked_projects(examples, id, <<>>))
    /\ lp_calls' = lp_calls + 1
    /\ UNCHANGED <<nonLinkedVars, boardsize, cores>>

LinkedNext == FindLinkedProjects

----------------------------------------------------------------------------
(* The Eclipse project parser: compilers/eclipse.py                        *)

\* An XML attribute: absent, or present with a string value.
Absent == <<>>

Present(str) == <<str>>

\* dict.get(key, default) on an element's attributes.
attrib_get(attr, default) == IF attr = Absent THEN default ELSE attr[1]

\* The literal the parser compares the artifact name with (line 117).
ProjNameToken == <<"$", "{", "P", "r", "o", "j", "N", "a", "m", "e", "}">>

\* var_pattern.sub('', path) with var_pattern = ^\$\{.*\}/ : a path that
\* begins with "${" loses everything up to and including the last "}/" (the
\* .* is greedy); any other path is kept.
var_pattern_sub(path) ==
    LET ends == {j \in 3..(Len(path) - 1) :
                    path[j] = "}" /\ path[j + 1] = "/"}
        last == CHOOSE j \in ends : \A k \in ends : k <= j
    IN  IF Len(path) >= 2 /\ path[1] = "$" /\ path[2] = "{" /\ ends # {}
        THEN SubSeq(path, last + 2, Len(path))
        ELSE path

\* dict[key] = value
DictSet(dict, key, value) ==
    [k \in (DOMAIN dict) \cup {key} |-> IF k = key THEN value ELSE dict[k]]

\* The keys of a dict after dict[key] = value: a new key goes last, a key
\* already present keeps its place.
KeysSet(keys, key) == IF key \in Range(keys) THEN keys ELSE Append(keys, key)

\* The body of the loop of parse_cproject for one configuration (lines
\* 114-125): the target name and the output path it is mapped to.
target_name(cfg) == Strip(cfg.name)

output_path(cfg, name) ==
    LET extension == Strip(attrib_get(cfg.artifactExtension, <<>>))
        stripped == Strip(attrib_get(cfg.artifactName, <<>>))
        artifact_name == IF stripped = ProjNameToken THEN name ELSE stripped
        output_name == artifact_name \o <<".">> \o extension
        output_dir == IF cfg.buildPath = Absent
                      THEN target_name(cfg)
                      ELSE var_pattern_sub(cfg.buildPath[1])
    IN  output_dir \o <<"/">> \o output_name

\* parse_cproject: the loop over the configurations from the i-th on, with
\* the dict built so far. A configuration without an artifactName attribute
\* stops the parse: None has no strip().
RECURSIVE parse_cproject(_, _, _, _, _)
parse_cproject(cfgs, i, name, keys, dict) ==
    IF i > Len(cfgs) THEN [raised |-> FALSE, keys |-> keys, dict |-> dict]
    ELSE IF cfgs[i].artifactName = Absent
    THEN [raised |-> TRUE, keys |-> <<>>, dict |-> <<>>]
    ELSE parse_cproject(cfgs, i + 1, name,
                        KeysSet(keys, target_name(cfgs[i])),
                        DictSet(dict, target_name(cfgs[i]),
                                output_path(cfgs[i], name)))

\* The strings the modelled project files hold.
ProjectNameTexts == {<<"h">>, <<" ", "h">>, <<" ">>}

ConfigNames == {<<"D">>, <<" ", "D">>, <<"R">>}

ArtifactNames ==
    {Absent, Present(<<"h">>), Present(ProjNameToken),
     Present(ProjNameToken \o <<"a">>)}

ArtifactExtensions == {Absent, Present(<<"a", "x", "f">>)}

BuildPaths ==
    {Absent,
     Present(<<"$", "{", "w", "}", "/", "D">>),
     Present(<<"$", "{", "w", "}", "/", "$", "{", "c", "}", "/", "D">>),
     Present(<<"/", "D">>)}

Configurations ==
    [name : ConfigNames, artifactName : ArtifactNames,
     artifactExtension : ArtifactExtensions, buildPath : BuildPaths]

\* The most configurations a modelled .cproject holds.
MaxConfigs == 2

ConfigLists == UNION {[1..k -> Configurations] : k \in 0..MaxConfigs}

EclipseIdle ==
    /\ ecl_project = <<>>
    /\ ecl_configs = <<>>
    /\ ecl_name = <<>>
    /\ ecl_conf = <<>>
    /\ ecl_targets = <<>>
    /\ ecl_pc = "idle"

\* A project directory on disk; no Project object yet.
EclipseInit ==
    /\ ecl_project \in ProjectNameTexts
    /\ ecl_configs \in ConfigLists
    /\ ecl_name = <<>>
    /\ ecl_conf = <<>>
    /\ ecl_targets = <<>>
    /\ ecl_pc = "call"

\* Project(path) with a .cproject path: __init__ calls parse, which reads the
\* name from .project and the targets from .cproject.
Parse ==
    /\ ecl_pc = "call"
    /\ LET name == Strip(ecl_project)
           parsed == parse_cproject(ecl_configs, 1, name, <<>>, <<>>)
       IN  /\ ecl_name' = name
           /\ ecl_conf' = parsed.dict
           /\ ecl_targets' = parsed.keys
           /\ ecl_pc' = IF parsed.raised THEN "raised" ELSE "done"
    /\ UNCHANGED <<nonEclipseVars, ecl_project, ecl_configs>>

EclipseNext == Parse

----------------------------------------------------------------------------
(* The toolchain registry: compilers/__init__.py                           *)

SUPPORTED_TOOLCHAINS == <<"mcux", "armgcc">>

\* The toolchain packages compilers.<name>: each exports its Compiler and
\* its Project class.
ToolchainExports == {"Compiler", "Project"}

\* The other modules of the compilers package that a lookup can name.
HelperExports(name) ==
    CASE name = "eclipse" -> {"Project", "generate_build_cmdline"}
      [] name = "idebase" -> {"IDEBase"}
      [] OTHER -> {}

\* The names a lookup is made with: the registered ones, two helper modules
\* of the package, and a name with no module.
LookupNames == Range(SUPPORTED_TOOLCHAINS) \cup {"eclipse", "idebase", "iar"}

\* Whether importlib.import_module(f"compilers.{name}") finds a module.
Importable(name) ==
    name \in Range(SUPPORTED_TOOLCHAINS) \cup {"eclipse", "idebase"}

\* The modules of LookupNames in sys.modules after compilers.<name> was
\* imported: the mcux toolchain imports compilers.eclipse itself.
Imported(name) == IF name = "mcux" THEN {"mcux", "eclipse"} ELSE {name}

\* The attributes of the module compilers.<name>.
Exports(name) ==
    IF name \in Range(SUPPORTED_TOOLCHAINS)
    THEN ToolchainExports
    ELSE HelperExports(name)

\* A call's outcome: the value returned or the exception that left it.
Outcome(kind, value) == [kind |-> kind, value |-> value]

NoCall == [fn |-> "none", name |-> "none"]

\* The most registry calls in one run.
MaxLookups == 3

\* compilerfactory(name), lines 43-51: only ImportError becomes ValueError;
\* a module without a Compiler or a Project attribute makes getattr raise
\* AttributeError, which is not caught.
compilerfactory(name) ==
    IF ~Importable(name) THEN Outcome("ValueError", <<>>)
    ELSE IF "Compiler" \notin Exports(name) \/ "Project" \notin Exports(name)
    THEN Outcome("AttributeError", <<>>)
    ELSE Outcome("returned", <<name, "Compiler">>)

\* factory(name), lines 56-60: ImportError is swallowed and the return reads
\* a local that was never bound.
factory(name) ==
    IF ~Importable(name) THEN Outcome("UnboundLocalError", <<>>)
    ELSE Outcome("returned", <<name>>)

\* The compilers package as imported: its __init__ has loaded idebase.
RegistryIdle ==
    /\ sys_modules = {"idebase"}
    /\ attached = {}
    /\ reg_call = NoCall
    /\ reg_outcome = Outcome("none", <<>>)
    /\ reg_calls = 0

\* The package imported, no lookup made.
RegistryInit == RegistryIdle

CompilerFactory ==
    /\ reg_calls < MaxLookups
    /\ \E name \in LookupNames :
        /\ reg_call' = [fn |-> "compilerfactory", name |-> name]
        /\ reg_outcome' = compilerfactory(name)
        /\ sys_modules' =
             IF Importable(name)
             THEN sys_modules \cup Imported(name)
             ELSE sys_modules
        /\ attached' =
             IF compilerfactory(name).kind = "returned"
             THEN attached \cup {name}
             ELSE attached
    /\ reg_calls' = reg_calls + 1
    /\ UNCHANGED nonRegistryVars

Factory ==
    /\ reg_calls < MaxLookups
    /\ \E name \in LookupNames :
        /\ reg_call' = [fn |-> "factory", name |-> name]
        /\ reg_outcome' = factory(name)
        /\ sys_modules' =
             IF Importable(name)
             THEN sys_modules \cup Imported(name)
             ELSE sys_modules
    /\ reg_calls' = reg_calls + 1
    /\ UNCHANGED <<nonRegistryVars, attached>>

RegistryNext == CompilerFactory \/ Factory

----------------------------------------------------------------------------
(* The project scanner: projects_scanner.py, ProjectBase.fromdir           *)

\* IDE_INS: the toolchains in the order of SUPPORTED_TOOLCHAINS.
IDE_INS == SUPPORTED_TOOLCHAINS

\* EXCLUDE_DIR_NAME as the matcher holds it, each pattern without its
\* trailing slash. 'settings/' and '.git/' are adjacent literals with no
\* comma between them (lines 29-30), so they are the one pattern
\* 'settings/.git/'.
EXCLUDE_DIR_NAME ==
    {"log", "debug", "obj", "release", ".debug", ".release", "RTE",
     "settings/.git", "__pycache__", "flexspi_nor_debug",
     "flexspi_nor_release"}

\* Exclude_Matcher.match(folder) for a folder name.
Exclude_Matcher(folder) == folder \in EXCLUDE_DIR_NAME

\* The modelled tree: the root 0 with the folders 1 and 2, and folder 3
\* inside folder 1.
RootDir == 0

Dirs == {0, 1, 2, 3}

\* The folders of a directory, in the order os.walk lists them.
Children(d) ==
    CASE d = 0 -> <<1, 2>>
      [] d = 1 -> <<3>>
      [] OTHER -> <<>>

\* The directories at or below d.
Subtree(d) ==
    CASE d = 0 -> {0, 1, 2, 3}
      [] d = 1 -> {1, 3}
      [] OTHER -> {d}

\* What the project files of a directory do when each toolchain's Project is
\* constructed on them, in glob order: "ok", or the exception raised by the
\* constructor or by the boardname lookup of _get_instance.
NoFiles == [mcux |-> <<>>, armgcc |-> <<>>]

McuxGood == [mcux |-> <<"ok">>, armgcc |-> <<>>]

McuxBadArmgccGood == [mcux |-> <<"ParseError">>, armgcc |-> <<"ok">>]

BothGood == [mcux |-> <<"ProjectParserError", "ok", "IndexError", "ok">>,
             armgcc |-> <<"ok">>]

Contents == {NoFiles, McuxGood, McuxBadArmgccGood, BothGood}

\* The root directory's name and where a *_manifest*.xml lies: in the root,
\* in its parent, or in neither.
RootKinds ==
    {[name |-> "sdk", manifest |-> "none"],
     [name |-> "sdk", manifest |-> "root"],
     [name |-> "boards", manifest |-> "none"],
     [name |-> "boards", manifest |-> "root"],
     [name |-> "boards", manifest |-> "parent"]}

\* The folder whose subtree the examples of the manifest at the SDK root
\* declare.
RootManifestFolders == <<2>>

Trees ==
    {[root |-> r, names |-> n, content |-> c] :
        r \in RootKinds,
        n \in {f \in [1..3 -> {"a", "b", "debug", ".git", "src", "obj"}] :
                 /\ f[1] \in {"a", "debug", ".git"}
                 /\ f[2] = "b"
                 /\ f[3] \in {"src", "obj"}},
        c \in {f \in [Dirs -> Contents] :
                 /\ f[0] \in {NoFiles, McuxGood}
                 /\ f[3] \in {NoFiles, McuxGood}}}

\* The manifests SDKManifest.find meets under the manifests directories, each
\* given by the search folders its examples' paths lead to.
ListedManifests == {<<>>, << <<2>> >>, << <<1>>, <<1, 2>> >>}

ScanInputs ==
    [recursive : BOOLEAN, manifests_dir : BOOLEAN, listed : ListedManifests]

\* include_tools / exclude_tools: a list of toolchain names; None and the
\* empty list are both the empty set here, both being falsy.
ToolFilters == {{}, {"mcux"}, {"armgcc"}}

\* fromdir giving up at the first candidate that raises: the projects of the
\* candidates before it only.
fromdir_abort(t, tool, d) ==
    LET cands == t.content[d][tool]
        bad == {i \in 1..Len(cands) : cands[i] # "ok"}
        stop == IF bad = {} THEN Len(cands) + 1 ELSE Least(bad)
    IN  [i \in 1..(stop - 1) |->
            [dir |-> d, idename |-> tool, file |-> i, made |-> cands[i]]]

\* ProjectBase.fromdir on a directory: one project per candidate whose
\* construction succeeds; a candidate that raises is passed over.
fromdir(t, tool, d) ==
    LET cands == t.content[d][tool]
    IN  SelectSeq([i \in 1..Len(cands) |->
                      [dir |-> d, idename |-> tool, file |-> i,
                       made |-> cands[i]]],
                  LAMBDA c : c.made = "ok")

\* projects[key].extend(prjs) on a defaultdict(list).
Extend(map, key, prjs) ==
    [k \in (DOMAIN map) \cup {key} |->
        IF k = key
        THEN (IF key \in DOMAIN map THEN map[key] ELSE <<>>) \o prjs
        ELSE map[k]]

\* _find_projects without its break: every toolchain adds its projects.
RECURSIVE find_in_dir_all(_, _, _, _)
find_in_dir_all(t, map, d, i) ==
    IF i > Len(IDE_INS) THEN map
    ELSE LET prjs == fromdir(t, IDE_INS[i], d)
         IN  find_in_dir_all(t,
                             IF prjs # <<>>
                             THEN Extend(map, IDE_INS[i], prjs)
                             ELSE map,
                             d, i + 1)

\* _find_projects(projects, dir) from the i-th toolchain of IDE_INS on: the
\* first toolchain whose fromdir gives projects takes the directory.
RECURSIVE find_in_dir(_, _, _, _)
find_in_dir(t, map, d, i) ==
    IF i > Len(IDE_INS) THEN map
    ELSE LET prjs == fromdir(t, IDE_INS[i], d)
         IN  IF prjs # <<>>
             THEN Extend(map, IDE_INS[i], prjs)
             ELSE find_in_dir(t, map, d, i + 1)

\* The folders of a list that the walk hands to _find_projects.
NotExcluded(t, folders) ==
    SelectSeq(folders, LAMBDA f : ~Exclude_Matcher(t.names[f]))

\* os.walk(dir, topdown=True) with the loop body of lines 107-112: for each
\* directory visited, its folders that do not match; the walk itself goes
\* into every folder, matching or not.
RECURSIVE walk(_, _)
walk(t, pending) ==
    IF pending = <<>> THEN <<>>
    ELSE NotExcluded(t, Children(Head(pending)))
         \o walk(t, Children(Head(pending)) \o Tail(pending))

\* The directories find_projects_from_dir(dirs, recursive) scans, in order.
RECURSIVE scan_order(_, _, _)
scan_order(t, dirs, recursive) ==
    IF dirs = <<>> THEN <<>>
    ELSE <<Head(dirs)>>
         \o (IF recursive THEN walk(t, <<Head(dirs)>>) ELSE <<>>)
         \o scan_order(t, Tail(dirs), recursive)

\* The mapping after _find_projects ran on each directory of a list.
RECURSIVE collect(_, _, _)
collect(t, map, order) ==
    IF order = <<>> THEN map
    ELSE collect(t, find_in_dir(t, map, Head(order), 1), Tail(order))

\* find_projects_from_dir(dirs, recursive)
find_projects_from_dir(t, dirs, recursive) ==
    collect(t, <<>>, scan_order(t, dirs, recursive))

\* projects[key].extend(value) for every key of another mapping (lines
\* 143-144).
ExtendAll(map, other) ==
    [k \in (DOMAIN map) \cup (DOMAIN other) |->
        (IF k \in DOMAIN map THEN map[k] ELSE <<>>)
        \o (IF k \in DOMAIN other THEN other[k] ELSE <<>>)]

\* find_projects_from_manifests: each manifest's search folders are scanned
\* recursively and the projects added to one mapping.
RECURSIVE find_projects_from_manifests(_, _, _)
find_projects_from_manifests(t, manifests, map) ==
    IF manifests = <<>> THEN map
    ELSE find_projects_from_manifests(
             t, Tail(manifests),
             ExtendAll(map, find_projects_from_dir(t, Head(manifests), TRUE)))

\* The directories find_projects_from_manifests scans, in order.
RECURSIVE manifests_scan_order(_, _)
manifests_scan_order(t, manifests) ==
    IF manifests = <<>> THEN <<>>
    ELSE scan_order(t, Head(manifests), TRUE)
         \o manifests_scan_order(t, Tail(manifests))

\* Whether SDKManifest.find_max_version(sdk_root) finds a manifest: sdk_root
\* is the parent of a root named 'boards', the root itself otherwise.
ManifestAtSdkRoot(t) ==
    IF t.root.name = "boards"
    THEN t.root.manifest = "parent"
    ELSE t.root.manifest = "root"

\* Sum of the lengths of the lists of a mapping (lines 214-217).
RECURSIVE Total(_, _)
Total(map, keys) ==
    IF keys = {} THEN 0
    ELSE LET k == CHOOSE x \in keys : TRUE
         IN  Len(map[k]) + Total(map, keys \ {k})

\* The include/exclude step of find_projects (lines 204-211): exclude_tools is
\* looked at only when include_tools is empty.
Filtered(map, include, exclude) ==
    IF DOMAIN map = {} THEN map
    ELSE IF include # {}
    THEN [k \in (DOMAIN map) \cap include |-> map[k]]
    ELSE IF exclude # {}
    THEN [k \in (DOMAIN map) \ exclude |-> map[k]]
    ELSE map

NoTree ==
    [root |-> [name |-> "sdk", manifest |-> "none"],
     names |-> [i \in 1..3 |-> "b"],
     content |-> [d \in Dirs |-> NoFiles]]

NoFilter == [include |-> {}, exclude |-> {}]

ScanIdle ==
    /\ tree = NoTree
    /\ scan_in = [recursive |-> FALSE, manifests_dir |-> FALSE, listed |-> <<>>]
    /\ scan_filter = NoFilter
    /\ scan_pc = "idle"
    /\ scanned = <<>>
    /\ projects = <<>>
    /\ count = <<>>

\* A tree on disk and a find_projects call about to be made on its root.
ScanInit ==
    /\ tree \in Trees
    /\ scan_in \in ScanInputs
    /\ scan_filter = NoFilter
    /\ scan_pc = "call"
    /\ scanned = <<>>
    /\ projects = <<>>
    /\ count = <<>>

\* find_projects up to line 202: the manifest lookup and the discovery. With
\* no manifest at the SDK root and manifests_dir passed, line 195 reads
\* search_dirs, which was never bound.
Discover ==
    /\ scan_pc = "call"
    /\ IF ManifestAtSdkRoot(tree)
       THEN /\ scanned' = scan_order(tree, <<RootDir>>, scan_in.recursive)
            /\ projects' = find_projects_from_dir(tree, <<RootDir>>,
                                                  scan_in.recursive)
            /\ scan_pc' = "filter"
       ELSE IF scan_in.manifests_dir
       THEN /\ scan_pc' = "UnboundLocalError"
            /\ UNCHANGED <<scanned, projects>>
       ELSE IF scan_in.listed # <<>>
       THEN /\ scanned' = manifests_scan_order(tree, scan_in.listed)
            /\ projects' = find_projects_from_manifests(tree, scan_in.listed,
                                                        <<>>)
            /\ scan_pc' = "filter"
       ELSE /\ scanned' = scan_order(tree, <<RootDir>>, scan_in.recursive)
            /\ projects' = find_projects_from_dir(tree, <<RootDir>>,
                                                  scan_in.recursive)
            /\ scan_pc' = "filter"
    /\ UNCHANGED <<nonScanVars, tree, scan_in, scan_filter, count>>

\* find_projects from line 204 on, for the include_tools and exclude_tools
\* the call was made with: the filter, the count, the return.
Filter ==
    /\ scan_pc = "filter"
    /\ \E include \in ToolFilters, exclude \in ToolFilters :
        LET kept == Filtered(projects, include, exclude)
        IN  /\ scan_filter' = [include |-> include, exclude |-> exclude]
            /\ projects' = kept
            /\ count' = <<Total(kept, DOMAIN kept)>>
    /\ scan_pc' = "done"
    /\ UNCHANGED <<nonScanVars, tree, scan_in, scanned>>

ScanNext == Discover \/ Filter

----------------------------------------------------------------------------
(* Vendor package projects: compilers/mcux/project.py                      *)

\* Toolchain names as they stand in a manifest's toolchain attribute.
Mcux == <<"m", "c", "u", "x">>

Armgcc == <<"a", "r", "m", "g", "c", "c">>

Mcuxpresso == Mcux \o <<"p", "r", "e", "s", "s", "o">>

Blank == <<" ">>

ToolchainAttrs ==
    {Absent, Present(Armgcc), Present(Armgcc \o Blank \o Mcux),
     Present(Armgcc \o Blank \o Mcuxpresso)}

\* The manifest's record of the example a package file names: whether an
\* example with that id exists, whether it has an <external type="xml">
\* child, and its toolchain attribute.
ManifestExamples ==
    {[found |-> FALSE, external |-> FALSE, toolchain |-> Absent]}
    \cup [found : {TRUE}, external : BOOLEAN, toolchain : ToolchainAttrs]

\* The SDK the project files lie in: the manifest's format_version, its
\* record of the example, and whether find_from_parents meets the manifest in
\* an ancestor of the project directory.
PackageWorlds ==
    [format_version : {Present(V30), Present(V31)},
     example : ManifestExamples,
     ancestor : BOOLEAN]

\* os.path.basename(path).replace('.xml', '')
XmlName == <<"h", "w">>

\* The files a constructor call is made on. A package call is made on an
\* <app>.xml: missing, malformed, without an <example> node, or with one
\* carrying the id and name attributes given. An eclipse call is made on a
\* .cproject: parsable with an mcux marker in .project, malformed, or without
\* the marker.
ProjectFiles ==
    {[kind |-> "package", file |-> f, id |-> Absent, name |-> Absent] :
        f \in {"missing", "malformed", "noexample"}}
    \cup [kind : {"package"}, file : {"ok"},
          id : {Absent, Present(<<>>), Present(<<"e">>)},
          name : {Absent, Present(<<>>), Present(<<"h">>), Present(<<"x">>)}]
    \cup {[kind |-> "eclipse", file |-> f, id |-> Absent, name |-> Absent] :
            f \in {"ok", "malformed", "nomarker"}}

\* The most constructor calls in one run.
MaxConstructions == 2

\* SDKManifest.find_example(example_id) as is_enabled meets it: None,
\* AttributeError from _get_example_info, or the record.
find_example(world) ==
    IF ~world.example.found THEN "None"
    ELSE IF ~world.example.external THEN "AttributeError"
    ELSE "info"

\* Project.is_enabled (lines 57-72): "True", "False", or the exception
\* find_example raises.
is_enabled(is_package, world) ==
    IF ~is_package THEN "True"
    ELSE IF find_example(world) = "None" THEN "False"
    ELSE IF find_example(world) = "AttributeError" THEN "AttributeError"
    ELSE IF world.format_version = Present(V31) THEN "True"
    ELSE IF IsSubstr(Mcux, attrib_get(world.example.toolchain, <<>>))
    THEN "True"
    ELSE "False"

\* The fields of a Project object the constructor sets.
Obj(name, id, is_package, manifest) ==
    [name |-> name, example_id |-> id, is_package |-> is_package,
     sdkmanifest |-> manifest]

\* What a constructor call leaves: how it ended, the object's fields, what
\* is_enabled gave at line 54 ("unread" if it was not read), and the class
\* field.
Left(ending, obj, enabled, field) ==
    [outcome |-> ending, obj |-> obj, enabled |-> enabled, field |-> field]

\* Line 54-55, the last step of the constructor.
finish(obj, world, field) ==
    IF ~obj.sdkmanifest THEN Left("constructed", obj, "unread", field)
    ELSE LET enabled == is_enabled(obj.is_package, world)
         IN  Left(CASE enabled = "True" -> "constructed"
                    [] enabled = "False" -> "ProjectNotFound"
                    [] OTHER -> enabled,
                  obj, enabled, field)

\* _load_from_sdk_package (lines 114-165) followed by lines 44-55.
load_from_sdk_package(call, world, field) ==
    LET blank == Obj(Absent, Absent, TRUE, field)
    IN
    IF call.file = "missing" THEN Left("ProjectNotFound", blank, "unread", field)
    ELSE IF call.file = "malformed"
    THEN Left("ParseError", blank, "unread", field)
    ELSE IF call.file = "noexample"
    THEN Left("ProjectNotFound", blank, "unread", field)
    ELSE IF call.name = Absent
    THEN \* None in xml_name
         Left("TypeError", Obj(Absent, call.id, TRUE, field), "unread", field)
    ELSE LET name == IF IsSubstr(call.name[1], XmlName)
                     THEN call.name[1]
                     ELSE XmlName
         IN  IF attrib_get(call.id, <<>>) = <<>>
             THEN Left("ProjectParserError",
                       Obj(Present(name), call.id, TRUE, field), "unread",
                       field)
             ELSE IF field
             THEN finish(Obj(Present(name), call.id, TRUE, TRUE), world, field)
             ELSE IF world.ancestor
             THEN finish(Obj(Present(name), call.id, TRUE, TRUE), world, TRUE)
             ELSE Left("ProjectParserError",
                       Obj(Present(name), call.id, TRUE, FALSE), "unread",
                       field)

\* The constructor on a .cproject path (lines 38-55): the Eclipse parse, the
\* marker test on .project, the enablement test.
load_from_eclipse_project(call, world, field) ==
    LET blank == Obj(Absent, Absent, FALSE, field)
    IN
    IF call.file = "malformed" THEN Left("ParseError", blank, "unread", field)
    ELSE IF call.file = "nomarker"
    THEN Left("ProjectNotFound", Obj(Present(XmlName), Absent, FALSE, field),
              "unread", field)
    ELSE finish(Obj(Present(XmlName), Absent, FALSE, field), world, field)

NoObj == Obj(Absent, Absent, FALSE, FALSE)

NoProjectFiles ==
    [kind |-> "none", file |-> "none", id |-> Absent, name |-> Absent]

PackageIdle ==
    /\ SDK_MANIFEST = FALSE
    /\ pkg_world = [format_version |-> Present(V30),
                    example |-> [found |-> FALSE, external |-> FALSE,
                                 toolchain |-> Absent],
                    ancestor |-> FALSE]
    /\ pkg_call = NoProjectFiles
    /\ pkg_obj = NoObj
    /\ pkg_enabled = "unread"
    /\ pkg_outcome = "none"
    /\ pkg_count = 0

\* An SDK tree, the class field as an earlier scan may have left it, no
\* project constructed yet.
PackageInit ==
    /\ SDK_MANIFEST \in BOOLEAN
    /\ pkg_world \in PackageWorlds
    /\ pkg_call = NoProjectFiles
    /\ pkg_obj = NoObj
    /\ pkg_enabled = "unread"
    /\ pkg_outcome = "none"
    /\ pkg_count = 0

\* mcux.Project(prjpath)
Construct ==
    /\ pkg_count < MaxConstructions
    /\ \E call \in ProjectFiles :
        LET left == IF call.kind = "package"
                    THEN load_from_sdk_package(call, pkg_world, SDK_MANIFEST)
                    ELSE load_from_eclipse_project(call, pkg_world,
                                                   SDK_MANIFEST)
        IN  /\ pkg_call' = call
            /\ pkg_obj' = left.obj
            /\ pkg_enabled' = left.enabled
            /\ pkg_outcome' = left.outcome
            /\ SDK_MANIFEST' = left.field
    /\ pkg_count' = pkg_count + 1
    /\ UNCHANGED <<nonPackageVars, pkg_world>>

PackageNext == Construct

----------------------------------------------------------------------------
(* The upward manifest search: SDKManifest.find_from_parents              *)

\* The longest modelled path, counted in directories from the filesystem root.
MaxDepth == 3

\* The format versions of the manifests on the path.
LevelVersions == {V30, V38}

\* What SDKManifest.find yields in one directory: no manifest, one, or two.
LevelLists ==
    {<<>>}
    \cup {<<[file |-> 1, format_version |-> v]>> : v \in LevelVersions}
    \cup {<<[file |-> 1, format_version |-> v],
            [file |-> 2, format_version |-> w]>> :
            v \in LevelVersions, w \in LevelVersions}

\* The loop of _search_dir with the starting directory searched first.
RECURSIVE search_dir_from_here(_, _)
search_dir_from_here(lv, current_dir) ==
    LET manifest == find_max_version(lv[current_dir])
    IN  IF manifest # NoManifest THEN manifest
        ELSE IF current_dir = 1 THEN NoManifest
        ELSE search_dir_from_here(lv, current_dir - 1)

\* _search_dir (lines 44-54): parent_dir = os.path.dirname(current_dir); at
\* the filesystem root the parent is the directory itself and the loop ends;
\* otherwise the parent is searched and becomes the current directory.
RECURSIVE search_dir(_, _)
search_dir(lv, current_dir) ==
    IF current_dir = 1 THEN NoManifest
    ELSE LET manifest == find_max_version(lv[current_dir - 1])
         IN  IF manifest # NoManifest THEN manifest
             ELSE search_dir(lv, current_dir - 1)

\* SDKManifest.find_from_parents(dir) with the search begun in dir itself.
find_from_parents_here(lv, dir) == search_dir_from_here(lv, dir)

\* SDKManifest.find_from_parents(dir), dir given by its place on the path.
find_from_parents(lv, dir) == search_dir(lv, dir)

ParentsIdle ==
    /\ levels = <<>>
    /\ origin = 0
    /\ located = NoManifest
    /\ fpc = "idle"

ParentsInit ==
    /\ levels \in UNION {[1..k -> LevelLists] : k \in 1..MaxDepth}
    /\ origin \in 1..Len(levels)
    /\ located = NoManifest
    /\ fpc = "call"

\* One call of SDKManifest.find_from_parents(dir).
FindFromParents ==
    /\ fpc = "call"
    /\ located' = find_from_parents(levels, origin)
    /\ fpc' = "done"
    /\ UNCHANGED <<nonParentsVars, levels, origin>>

ParentsNext == FindFromParents

----------------------------------------------------------------------------
(* Example lookups on a manifest: SDKManifest.find_example                 *)

\* The most find_example calls made on one manifest.
MaxQueries == 1

\* What a find_example call gives: None, the AttributeError of
\* _get_example_info, or the example's info.
NoInfo ==
    [id |-> NoAttr, linked_projects |-> NoAttr, index |-> NoAttr,
     example_xml |-> FALSE]

Found(kind, info) == [kind |-> kind, info |-> info]

\* SDKManifest.find_example(example_id) (lines 178-183) with
\* _get_example_info (lines 166-176): None for an id not in the document;
\* xml_node.find on None raises AttributeError for an example without an
\* <external type="xml"> child; otherwise the attributes plus the companion
\* file entry.
manifest_find_example(exs, example_id) ==
    LET node == find_example_node(exs, example_id)
    IN  IF node = 0 THEN Found("None", NoInfo)
        ELSE IF ~exs[node].external THEN Found("AttributeError", NoInfo)
        ELSE Found("info", get_example_info(exs[node]))

QueryIdle ==
    /\ q_arg = NoAttr
    /\ q_result = Found("none", NoInfo)
    /\ q_calls = 0

\* One call of manifest.find_example(example_id).
FindExample ==
    /\ q_calls < MaxQueries
    /\ \E id \in ExampleIds :
        /\ q_arg' = id
        /\ q_result' = manifest_find_example(examples, id)
    /\ q_calls' = q_calls + 1
    /\ UNCHANGED nonQueryVars

\* The queries made on a manifest shared by the projects that reference it.
ManifestNext == FindLinkedProjects \/ FindExample

----------------------------------------------------------------------------
(* File discovery: ProjectBase.fromdir, compilers/projectbase.py           *)

\* The most files in a directory fromdir is called on.
MaxCandidates == 2

\* How cls(str(filepath)) ends on a file.
Constructions == {"ok", "ProjectNotFound", "ProjectParserError", "ParseError"}

\* A file: whether its name matches one of the parser's glob patterns, and
\* how construction from it ends.
CandidateFiles == [matches : BOOLEAN, construct : Constructions]

\* The paths fromdir is called on: a directory with its files in glob order,
\* or a single file; in_boards tells whether re.findall(r"\w+/boards/(\w+)")
\* finds anything in the file paths.
SearchPaths ==
    [is_file : {FALSE}, in_boards : BOOLEAN,
     files : UNION {[1..k -> CandidateFiles] : k \in 0..MaxCandidates}]
    \cup [is_file : {TRUE}, in_boards : BOOLEAN,
          files : [1..1 -> CandidateFiles]]

\* What _get_instance gives: None, a project, or an exception.
Instance(kind) == [kind |-> kind]

\* ProjectBase._get_instance(filepath) (lines 53-60): None for a file that
\* matches no pattern; otherwise the construction, then the board name taken
\* as the last match of the boards pattern, IndexError when there is none.
get_instance(file, in_boards) ==
    IF ~file.matches THEN Instance("None")
    ELSE IF file.construct # "ok" THEN Instance(file.construct)
    ELSE IF ~in_boards THEN Instance("IndexError")
    ELSE Instance("project")

\* find_files(search_path, patterns): the places of the files of the
\* directory that match a pattern, in order.
find_files(files) == SelectSeq([i \in 1..Len(files) |-> i],
                               LAMBDA i : files[i].matches)

\* What fromdir returns or raises: prjs holds the places of the files the
\* returned projects were made from.
Listed(raised, prjs) == [raised |-> raised, prjs |-> prjs]

\* The directory branch of fromdir (lines 82-90): every exception of
\* _get_instance is swallowed.
RECURSIVE fromdir_loop(_, _, _, _)
fromdir_loop(path, found_files, k, prjs) ==
    IF k > Len(found_files) THEN prjs
    ELSE LET ins == get_instance(path.files[found_files[k]], path.in_boards)
         IN  fromdir_loop(path, found_files, k + 1,
                          IF ins.kind = "project"
                          THEN Append(prjs, found_files[k])
                          ELSE prjs)

\* ProjectBase.fromdir(path) (lines 62-92).
ProjectBase_fromdir(path) ==
    IF path.is_file
    THEN LET ins == get_instance(path.files[1], path.in_boards)
         IN  IF ins.kind = "project" THEN Listed("none", <<1>>)
             ELSE IF ins.kind \in {"None", "ProjectNotFound"}
             THEN Listed("none", <<>>)
             ELSE Listed(ins.kind, <<>>)
    ELSE Listed("none", fromdir_loop(path, find_files(path.files), 1, <<>>))

NoPathGiven == [is_file |-> FALSE, in_boards |-> FALSE, files |-> <<>>]

FromdirIdle ==
    /\ fd_path = NoPathGiven
    /\ fd_result = Listed("none", <<>>)
    /\ fd_pc = "idle"

FromdirInit ==
    /\ fd_path \in SearchPaths
    /\ fd_result = Listed("none", <<>>)
    /\ fd_pc = "call"

\* One call of cls.fromdir(path).
Fromdir ==
    /\ fd_pc = "call"
    /\ fd_result' = ProjectBase_fromdir(fd_path)
    /\ fd_pc' = "done"
    /\ UNCHANGED <<nonFromdirVars, fd_path>>

FromdirNext == Fromdir

----------------------------------------------------------------------------
(* The process-wide manifest override: projects_scanner.py and             *)
(* compilers/mcux/project.py                                               *)

\* The manifests of the SDK trees a process works on.
Manifests == {"M1", "M2"}

MaybeManifest == Manifests \cup {"None"}

\* The most calls (scans and constructions) in one process.
MaxEvents == 2

\* The most package projects one scan parses.
MaxScanned == 2

\* Project.SDK_MANIFEST as line 32 of mcux/project.py reads it: the attribute
\* of the mcux Project class when an assignment at line 162 has created it,
\* otherwise the one inherited from ProjectBase.
class_lookup(base, sub) == IF sub # "unset" THEN sub ELSE base

\* The manifest part of mcux.Project(path) for a package file whose ancestor
\* search would give `ancestor`: line 32, then lines 155-165.  bound is the
\* project's sdkmanifest, "None" when ProjectParserError is raised.
bind(base, sub, ancestor) ==
    LET override == class_lookup(base, sub)
    IN  IF override # "None" THEN [bound |-> override, sub |-> sub]
        ELSE IF ancestor # "None" THEN [bound |-> ancestor, sub |-> ancestor]
        ELSE [bound |-> "None", sub |-> sub]

\* The package projects of one scan parsed in turn, each given by what its
\* ancestor search would find.
RECURSIVE bind_all(_, _, _, _, _)
bind_all(base, sub, ancestors, k, bound) ==
    IF k > Len(ancestors) THEN [bound |-> bound, sub |-> sub]
    ELSE LET one == bind(base, sub, ancestors[k])
         IN  bind_all(base, one.sub, ancestors, k + 1,
                      Append(bound, one.bound))

NoEvent ==
    [op |-> "none", root |-> "None", listed |-> "None", ancestors |-> <<>>,
     bound |-> <<>>]

OverrideIdle ==
    /\ base_field = "None"
    /\ mcux_field = "unset"
    /\ ov_last = NoEvent
    /\ ov_events = 0

\* find_projects(root_dir) (lines 181-202): a manifest directly under the
\* root is stored in ProjectBase.SDK_MANIFEST; without one, a manifest listed
\* in a manifests folder is stored by find_projects_from_manifests (line
\* 140); then the package projects under the root are parsed.
FindProjects ==
    /\ ov_events < MaxEvents
    /\ \E root \in MaybeManifest, listed \in MaybeManifest,
          ancestors \in UNION {[1..k -> MaybeManifest] : k \in 1..MaxScanned} :
        LET base == IF root # "None" THEN root
                    ELSE IF listed # "None" THEN listed
                    ELSE base_field
            all == bind_all(base, mcux_field, ancestors, 1, <<>>)
        IN  /\ (root # "None" => listed = "None")
            /\ base_field' = base
            /\ mcux_field' = all.sub
            /\ ov_last' = [op |-> "find_projects", root |-> root,
                           listed |-> listed, ancestors |-> ancestors,
                           bound |-> all.bound]
    /\ ov_events' = ov_events + 1
    /\ UNCHANGED nonOverrideVars

\* mcux.Project(path) on a package file, outside any scan.
ConstructPackage ==
    /\ ov_events < MaxEvents
    /\ \E ancestor \in MaybeManifest :
        LET one == bind(base_field, mcux_field, ancestor)
        IN  /\ mcux_field' = one.sub
            /\ ov_last' = [op |-> "Project", root |-> "None",
                           listed |-> "None", ancestors |-> <<ancestor>>,
                           bound |-> <<one.bound>>]
    /\ ov_events' = ov_events + 1
    /\ UNCHANGED <<nonOverrideVars, base_field>>

OverrideNext == FindProjects \/ ConstructPackage

----------------------------------------------------------------------------
(* Build properties of a package project: compilers/mcux/compiler.py and   *)
(* compilers/mcux/project.py                                               *)

\* Compiler.BUILD_PROPERTY_PREFIX
BUILD_PROPERTY_PREFIX == "mcux_build_"

\* The property keys followed here, of the eighteen _properties_init sets.
PropertyKeys == {"verbose", "indexer", "build.config"}

\* The keyword names a build call may carry besides workspace: two with the
\* prefix and one without.
OptionNames == {"mcux_build_verbose", "mcux_build_indexer", "verbose"}

OptionValues == {"true", "false"}

\* The keyword options of one call: a dict over some of the names.
KwargSets ==
    UNION {[names -> OptionValues] : names \in SUBSET OptionNames}

\* opt.startswith(self.BUILD_PROPERTY_PREFIX)
HasPrefix(opt) == opt \in {"mcux_build_verbose", "mcux_build_indexer"}

\* opt.replace(self.BUILD_PROPERTY_PREFIX, "")
WithoutPrefix(opt) ==
    CASE opt = "mcux_build_verbose" -> "verbose"
      [] opt = "mcux_build_indexer" -> "indexer"
      [] OTHER -> opt

\* user_properties of get_build_command_line (lines 86-89).
user_properties(kwargs) ==
    LET keys == {WithoutPrefix(opt) : opt \in {o \in DOMAIN kwargs : HasPrefix(o)}}
    IN  [k \in keys |->
            kwargs[CHOOSE o \in DOMAIN kwargs :
                      HasPrefix(o) /\ WithoutPrefix(o) = k]]

\* Project._properties_init (lines 229-248), on the keys followed.
properties_init ==
    [k \in PropertyKeys |->
        CASE k = "verbose" -> "false"
          [] k = "indexer" -> "false"
          [] k = "build.config" -> "debug"]

\* dict.update
DictUpdate(dict, other) ==
    [k \in DOMAIN dict \cup DOMAIN other |->
        IF k \in DOMAIN other THEN other[k] ELSE dict[k]]

\* The most builds of one Project object.
MaxBuilds == 2

\* The targets a build is asked for.
PropertyTargets == {"Debug", "Release"}

\* gen_properties(target) (lines 250-290), on the keys followed: build.config
\* is set to the target, and every entry of build_properties is written.
gen_properties(properties, target) ==
    [properties EXCEPT !["build.config"] = target]

PropsIdle ==
    /\ build_properties = properties_init
    /\ bp_kwargs = <<>>
    /\ bp_target = "none"
    /\ bp_file = <<>>
    /\ bp_builds = 0

\* get_build_command_line(project, target, logfile, **kwargs) for a package
\* project without a properties_file option (lines 83-104 of compiler.py): the prefixed
\* options are merged into project.build_properties, then gen_properties
\* writes the file from it.
GetBuildCommandLine ==
    /\ bp_builds < MaxBuilds
    /\ \E kwargs \in KwargSets, target \in PropertyTargets :
        LET merged == DictUpdate(build_properties, user_properties(kwargs))
            written == gen_properties(merged, target)
        IN  /\ build_properties' = written
            /\ bp_file' = written
            /\ bp_kwargs' = kwargs
            /\ bp_target' = target
    /\ bp_builds' = bp_builds + 1
    /\ UNCHANGED nonPropsVars

PropsNext == GetBuildCommandLine

----------------------------------------------------------------------------
(* Build orchestration: compilers/result.py, compilers/mcux/compiler.py,   *)
(* compilers/decorators.py, util.py                                        *)

\* Result (enum) member names.
ResultKinds == {"PASSED", "Errors", "Warnings", "OtherErrors", "Timeout"}

\* A return code is <<n>>; None (run_command's returncode when Popen raised
\* OSError) is <<>>.
NoCode == <<>>

\* Popen.returncode of a child ended by SIGTERM (-signal.SIGTERM).
TermCode == -15

\* One past the largest key of Compiler.EXITCODE: an exit code outside the table.
MaxExit == 5

ExitCodes == 0..MaxExit

\* Compiler.EXITCODE.get(exitcode, "Errors")
EXITCODE(exitcode) ==
    IF exitcode = NoCode THEN "Errors"
    ELSE CASE exitcode[1] = 0 -> "PASS"
           [] exitcode[1] = 1 -> "Compiler Error"
           [] exitcode[1] = 2 -> "Internal Errors"
           [] exitcode[1] = 3 -> "Errors"
           [] exitcode[1] = 4 -> "Warnings"
           [] OTHER -> "Errors"

\* str.lower() on the status strings BuildResult.map receives.
StatusLower(status) ==
    CASE status = "PASS" -> "pass"
      [] status = "Compiler Error" -> "compiler error"
      [] status = "Internal Errors" -> "internal errors"
      [] status = "Errors" -> "errors"
      [] status = "Warnings" -> "warnings"
      [] OTHER -> status

\* BuildResult.map(result): the Result member for a status string.
BuildResultMap(status) ==
    LET value == StatusLower(status) IN
    IF value \in {"pass", "success", "true", "noerror"} THEN "PASSED"
    ELSE IF value \in {"warnings", "warning"} THEN "Warnings"
    ELSE IF value \in {"errors", "error"} THEN "Errors"
    ELSE IF value \in {"timeout"} THEN "Timeout"
    ELSE "OtherErrors"

\* Lines a build log may hold; the first is the phrase parse_build_result looks for.
ZeroWarningsLine == "Build Finished. 0 errors, 0 warnings."

LogLines == {ZeroWarningsLine,
             "Build Finished. 10 errors, 0 warnings.",
             "WARNING: The project name exceed maximum length"}

\* re.compile(warning_pattern).search(content) on a log given as its lines.
PhraseFound(content) == \E i \in 1..Len(content) : content[i] = ZeroWarningsLine

\* The log file as parse_build_result meets it: whether a path was passed,
\* whether os.path.exists holds for it, whether open()/read() succeeds, and
\* the text read.
LogFiles ==
    {[given |-> FALSE, exists |-> FALSE, readable |-> FALSE, content |-> <<>>],
     [given |-> TRUE, exists |-> FALSE, readable |-> FALSE, content |-> <<>>],
     [given |-> TRUE, exists |-> TRUE, readable |-> FALSE, content |-> <<>>]}
    \cup {[given |-> TRUE, exists |-> TRUE, readable |-> TRUE, content |-> c] :
            c \in {<<>>} \cup {<<l>> : l \in LogLines}
                  \cup {<<"WARNING: The project name exceed maximum length",
                           ZeroWarningsLine>>}}

\* Whether parse_build_result opens the log (compiler.py line 174).
OpensLog(exitcode, log) == exitcode = <<4>> /\ log.given /\ log.exists

\* Compiler.parse_build_result(exitcode, logfile): the Result member, or
\* "IOError" when open()/read() of an existing log raises.
parse_build_result(exitcode, log) ==
    IF OpensLog(exitcode, log)
    THEN IF ~log.readable THEN "IOError"
         ELSE IF PhraseFound(log.content) THEN BuildResultMap("PASS")
         ELSE BuildResultMap(EXITCODE(exitcode))
    ELSE BuildResultMap(EXITCODE(exitcode))

\* A path is the sequence of its components; None is NoPath.
NoPath == <<"None">>

\* The project being built: targetsinfo of a vendor package project
\* (mcux/project.py lines 151-154) with example id "hello_world".
TargetsInfo == [Debug |-> <<"hello_world", "Debug">>,
                Release |-> <<"hello_world", "Release">>]

\* The target strings build_project is called with: the declared ones and one
\* that targetsinfo does not hold.
BuildTargets == {"Debug", "Release", "debug"}

\* _project.targetsinfo.get(_target)
targetsinfo_get(target) ==
    IF target \in DOMAIN TargetsInfo THEN TargetsInfo[target] ELSE NoPath

\* kwargs['workspace']: DEFAULT_MCUTK_WORKSPACE + "/" + _toolchain.name
Workspace == <<"~", "mcutk_workspace", "mcux">>

\* valid_extension, in the order the wraper tries them.
valid_extension == <<".axf", ".elf", ".out", ".hex", ".bin", ".lib", ".a">>

\* Files a build directory may hold: <<stem, extension>>.
FileNames == {"app", "lib"} \X (Range(valid_extension) \cup {".map"})

\* The most files a modelled output directory holds.
MaxDirFiles == 2

\* What output_abs is on disk: a file, nothing, or a directory with files.
FsStates ==
    {[kind |-> "file", files |-> {}], [kind |-> "missing", files |-> {}]}
    \cup {[kind |-> "dir", files |-> fs] :
            fs \in {x \in SUBSET FileNames : Cardinality(x) <= MaxDirFiles}}

\* glob.glob(output_abs + "/*" + ext): the files of the directory with that
\* extension.
Glob(files, ext) == {f \in files : f[2] = ext}

\* The loop run to its end instead of breaking at the first match: the index of
\* the last extension with a match.
FirstMatch_last(files) ==
    IF \E i \in 1..Len(valid_extension) : Glob(files, valid_extension[i]) # {}
    THEN CHOOSE i \in 1..Len(valid_extension) :
            /\ Glob(files, valid_extension[i]) # {}
            /\ \A j \in (i + 1)..Len(valid_extension) :
                  Glob(files, valid_extension[j]) = {}
    ELSE 0

\* The index in valid_extension at which the for loop breaks (0: the loop
\* runs to its else branch).
FirstMatch(files) ==
    IF \E i \in 1..Len(valid_extension) : Glob(files, valid_extension[i]) # {}
    THEN CHOOSE i \in 1..Len(valid_extension) :
            /\ Glob(files, valid_extension[i]) # {}
            /\ \A j \in 1..(i - 1) : Glob(files, valid_extension[j]) = {}
    ELSE 0

NoBr == [result |-> "none", output |-> NoPath]

NoEnv == [log |-> [given |-> FALSE, exists |-> FALSE, readable |-> FALSE,
                   content |-> <<>>],
          fs |-> [kind |-> "missing", files |-> {}]]

\* The inputs of one invocation: whether a timeout was passed, whether Popen
\* raises OSError, and the target.
BuildInputs == [timeout : BOOLEAN, startFails : BOOLEAN, target : BuildTargets]

\* The build component at rest, for the specifications of the other components.
BuildIdle ==
    /\ b_in = [timeout |-> FALSE, startFails |-> FALSE, target |-> "Debug"]
    /\ pc = "idle"
    /\ tpc = "idle"
    /\ timer = "none"
    /\ proc = "none"
    /\ exitstatus = NoCode
    /\ reaped = FALSE
    /\ killed = FALSE
    /\ is_timeout = FALSE
    /\ returncode = NoCode
    /\ br = NoBr
    /\ outcome = "none"
    /\ warned = FALSE
    /\ env = NoEnv
    /\ at_deadline = "none"

BuildInit ==
    /\ b_in \in BuildInputs
    /\ pc = "start"
    /\ tpc = "idle"
    /\ timer = "none"
    /\ proc = "none"
    /\ exitstatus = NoCode
    /\ reaped = FALSE
    /\ killed = FALSE
    /\ is_timeout = FALSE
    /\ returncode = NoCode
    /\ br = NoBr
    /\ outcome = "none"
    /\ warned = FALSE
    /\ env = NoEnv
    /\ at_deadline = "none"

\* wraper up to run_command's Popen and Timer start.  An OSError from Popen is
\* logged; run_command's finally finds no timer and returns (None, "").
Start ==
    /\ pc = "start"
    /\ IF b_in.startFails
       THEN /\ pc' = "classify"
            /\ UNCHANGED <<proc, timer>>
       ELSE /\ proc' = "running"
            /\ timer' = IF b_in.timeout THEN "armed" ELSE "none"
            /\ pc' = "wait"
    /\ UNCHANGED <<nonBuildVars, at_deadline, b_in, tpc, exitstatus, reaped,
                   killed, is_timeout, returncode, br, outcome, warned, env>>

\* The child ends on its own with some exit code.
ChildExit ==
    /\ proc = "running"
    /\ \E c \in ExitCodes : exitstatus' = <<c>>
    /\ proc' = "exited"
    /\ UNCHANGED <<nonBuildVars, at_deadline, b_in, pc, tpc, timer, reaped,
                   killed, is_timeout, returncode, br, outcome, warned, env>>

\* process.communicate() returns once the child has ended;
\* returncode = process.returncode.
Wait ==
    /\ pc = "wait"
    /\ proc = "exited"
    /\ reaped' = TRUE
    /\ returncode' = exitstatus
    /\ pc' = "cancel"
    /\ UNCHANGED <<nonBuildVars, at_deadline, b_in, tpc, timer, proc,
                   exitstatus, killed, is_timeout, br, outcome, warned, env>>

\* finally: if timer: timer.cancel().  A timer that has fired is not stopped.
Cancel ==
    /\ pc = "cancel"
    /\ timer' = IF timer = "armed" THEN "cancelled" ELSE timer
    /\ pc' = "check"
    /\ UNCHANGED <<nonBuildVars, at_deadline, b_in, tpc, proc, exitstatus,
                   reaped, killed, is_timeout, returncode, br, outcome, warned,
                   env>>

\* finally: if timer_result['is_timeout']: raise ProcessTimeout (need_raise is
\* True in the wraper's call); otherwise run_command returns.
Check ==
    /\ pc = "check"
    /\ IF is_timeout
       THEN outcome' = "ProcessTimeout" /\ pc' = "done"
       ELSE outcome' = outcome /\ pc' = "classify"
    /\ UNCHANGED <<nonBuildVars, at_deadline, b_in, tpc, timer, proc,
                   exitstatus, reaped, killed, is_timeout, returncode, br,
                   warned, env>>

\* Timer.run: the interval has passed and cancel() has not been called.
TimerFire ==
    /\ timer = "armed"
    /\ timer' = "fired"
    /\ tpc' = "kill"
    /\ at_deadline' = proc
    /\ UNCHANGED <<nonBuildVars, b_in, pc, proc, exitstatus, reaped, killed,
                   is_timeout, returncode, br, outcome, warned, env>>

\* _timeout_trigger with shell=True: os.killpg(os.getpgid(pro.pid), SIGTERM).
\* A running child ends with TermCode; a child that has ended but has not been
\* waited for is signalled without effect; for a child already waited for
\* os.getpgid raises and the timer thread ends without setting the flag.
TimerKill ==
    /\ tpc = "kill"
    /\ IF proc = "running"
       THEN /\ proc' = "exited"
            /\ exitstatus' = <<TermCode>>
            /\ killed' = TRUE
            /\ tpc' = "setflag"
       ELSE /\ UNCHANGED <<proc, exitstatus, killed>>
            /\ tpc' = IF reaped THEN "dead" ELSE "setflag"
    /\ UNCHANGED <<nonBuildVars, at_deadline, b_in, pc, timer, reaped,
                   is_timeout, returncode, br, outcome, warned, env>>

\* _timeout_trigger: result['is_timeout'] = True
TimerSetFlag ==
    /\ tpc = "setflag"
    /\ is_timeout' = TRUE
    /\ tpc' = "done"
    /\ UNCHANGED <<nonBuildVars, at_deadline, b_in, pc, timer, proc,
                   exitstatus, reaped, killed, returncode, br, outcome, warned,
                   env>>

\* The wraper after run_command returned: classification, set_output of the
\* declared path, the early return, and the artifact resolution against what
\* is on disk.
Classify ==
    /\ pc = "classify"
    /\ \E log \in LogFiles, fs \in FsStates :
        LET kind == parse_build_result(returncode, log)
            output == targetsinfo_get(b_in.target)
            output_abs == Workspace \o output
            idx == FirstMatch(fs.files)
        IN  /\ env' = [log |-> log, fs |-> fs]
            /\ IF kind = "IOError"
               THEN /\ outcome' = "IOError"
                    /\ UNCHANGED <<br, warned>>
               ELSE IF kind \notin {"PASSED", "Warnings"}
               THEN /\ br' = [result |-> kind, output |-> output]
                    /\ outcome' = "returned"
                    /\ UNCHANGED warned
               ELSE IF output = NoPath
               THEN \* os.path.join(workspace, None)
                    /\ br' = [result |-> kind, output |-> output]
                    /\ outcome' = "TypeError"
                    /\ UNCHANGED warned
               ELSE IF fs.kind = "file"
               THEN /\ br' = [result |-> kind, output |-> output_abs]
                    /\ outcome' = "returned"
                    /\ UNCHANGED warned
               ELSE IF fs.kind = "missing"
               THEN /\ br' = [result |-> kind, output |-> output]
                    /\ outcome' = "returned"
                    /\ warned' = TRUE
               ELSE IF idx = 0
               THEN /\ br' = [result |-> kind, output |-> output]
                    /\ outcome' = "returned"
                    /\ warned' = TRUE
               ELSE /\ \E f \in Glob(fs.files, valid_extension[idx]) :
                         br' = [result |-> kind,
                                output |-> output_abs \o <<f[1], f[2]>>]
                    /\ outcome' = "returned"
                    /\ UNCHANGED warned
    /\ pc' = "done"
    /\ UNCHANGED <<nonBuildVars, at_deadline, b_in, tpc, timer, proc,
                   exitstatus, reaped, killed, is_timeout, returncode>>

NonBuildIdle ==
    TargetIdle /\ VersionIdle /\ LinkedIdle /\ EclipseIdle
    /\ RegistryIdle /\ ScanIdle /\ PackageIdle /\ ParentsIdle
    /\ QueryIdle /\ FromdirIdle /\ OverrideIdle /\ PropsIdle

NonTargetIdle ==
    BuildIdle /\ VersionIdle /\ LinkedIdle /\ EclipseIdle
    /\ RegistryIdle /\ ScanIdle /\ PackageIdle /\ ParentsIdle
    /\ QueryIdle /\ FromdirIdle /\ OverrideIdle /\ PropsIdle

NonVersionIdle ==
    BuildIdle /\ TargetIdle /\ LinkedIdle /\ EclipseIdle
    /\ RegistryIdle /\ ScanIdle /\ PackageIdle /\ ParentsIdle
    /\ QueryIdle /\ FromdirIdle /\ OverrideIdle /\ PropsIdle

NonLinkedIdle ==
    BuildIdle /\ TargetIdle /\ VersionIdle /\ EclipseIdle
    /\ RegistryIdle /\ ScanIdle /\ PackageIdle /\ ParentsIdle
    /\ QueryIdle /\ FromdirIdle /\ OverrideIdle /\ PropsIdle

NonEclipseIdle ==
    BuildIdle /\ TargetIdle /\ VersionIdle /\ LinkedIdle
    /\ RegistryIdle /\ ScanIdle /\ PackageIdle /\ ParentsIdle
    /\ QueryIdle /\ FromdirIdle /\ OverrideIdle /\ PropsIdle

NonRegistryIdle ==
    BuildIdle /\ TargetIdle /\ VersionIdle /\ LinkedIdle
    /\ EclipseIdle /\ ScanIdle /\ PackageIdle /\ ParentsIdle
    /\ QueryIdle /\ FromdirIdle /\ OverrideIdle /\ PropsIdle

NonScanIdle ==
    BuildIdle /\ TargetIdle /\ VersionIdle /\ LinkedIdle
    /\ EclipseIdle /\ RegistryIdle /\ PackageIdle /\ ParentsIdle
    /\ QueryIdle /\ FromdirIdle /\ OverrideIdle /\ PropsIdle

NonPackageIdle ==
    BuildIdle /\ TargetIdle /\ VersionIdle /\ LinkedIdle
    /\ EclipseIdle /\ RegistryIdle /\ ScanIdle /\ ParentsIdle
    /\ QueryIdle /\ FromdirIdle /\ OverrideIdle /\ PropsIdle

NonParentsIdle ==
    BuildIdle /\ TargetIdle /\ VersionIdle /\ LinkedIdle
    /\ EclipseIdle /\ RegistryIdle /\ ScanIdle /\ PackageIdle
    /\ QueryIdle /\ FromdirIdle /\ OverrideIdle /\ PropsIdle

NonQueryIdle ==
    BuildIdle /\ TargetIdle /\ VersionIdle /\ LinkedIdle
    /\ EclipseIdle /\ RegistryIdle /\ ScanIdle /\ PackageIdle
    /\ ParentsIdle /\ FromdirIdle /\ OverrideIdle /\ PropsIdle

NonFromdirIdle ==
    BuildIdle /\ TargetIdle /\ VersionIdle /\ LinkedIdle
    /\ EclipseIdle /\ RegistryIdle /\ ScanIdle /\ PackageIdle
    /\ ParentsIdle /\ QueryIdle /\ OverrideIdle /\ PropsIdle

NonOverrideIdle ==
    BuildIdle /\ TargetIdle /\ VersionIdle /\ LinkedIdle
    /\ EclipseIdle /\ RegistryIdle /\ ScanIdle /\ PackageIdle
    /\ ParentsIdle /\ QueryIdle /\ FromdirIdle /\ PropsIdle

NonPropsIdle ==
    BuildIdle /\ TargetIdle /\ VersionIdle /\ LinkedIdle
    /\ EclipseIdle /\ RegistryIdle /\ ScanIdle /\ PackageIdle
    /\ ParentsIdle /\ QueryIdle /\ FromdirIdle /\ OverrideIdle

BuildNext ==
    \/ Start
    \/ ChildExit
    \/ Wait
    \/ Cancel
    \/ Check
    \/ TimerFire
    \/ TimerKill
    \/ TimerSetFlag
    \/ Classify

\* A build invocation about to start, the other components at rest.
BuildStart == BuildInit /\ NonBuildIdle

SpecBuild == BuildStart /\ [][BuildNext]_vars

\* The invocation got as far as the wraper's classification of the exit code.
Classified == pc = "done" /\ outcome # "ProcessTimeout"

\* C1: when the timer fired and terminated the still-running child, the
\* invocation ends by raising ProcessTimeout and returns no BuildResult,
\* whatever the interleaving of the timer thread and the main thread.
C1_KilledChildRaisesTimeout ==
    (pc = "done" /\ killed) => outcome = "ProcessTimeout"

\* C2: a build of a declared target, run without a timeout, whose child ends
\* with exit code 4 is returned as Passed when the log exists, is readable and
\* holds the phrase, and as Warnings in every other case (phrase absent, no
\* log path, no such file, file not readable).
C2_WarningsUpgradedByLog ==
    (/\ pc = "done"
     /\ ~b_in.timeout
     /\ b_in.target \in DOMAIN TargetsInfo
     /\ returncode = <<4>>)
    => /\ outcome = "returned"
       /\ br.result = IF /\ env.log.given
                          /\ env.log.exists
                          /\ env.log.readable
                          /\ PhraseFound(env.log.content)
                       THEN "PASSED"
                       ELSE "Warnings"

\* C3: the BuildResult returned for a build that ran and was classified as
\* neither Passed nor Warnings has no artifact path: neither the declared
\* relative path nor any other.
C3_FailedBuildHasNoOutput ==
    (/\ pc = "done"
     /\ reaped
     /\ outcome = "returned"
     /\ br.result \notin {"PASSED", "Warnings"})
    => br.output = NoPath

\* C4: a build of a declared target classified Passed whose output location
\* does not exist returns a BuildResult of kind Passed with no artifact path,
\* after a logged warning, and raises nothing.
C4_MissingOutputLeavesPathAbsent ==
    (/\ Classified
     /\ b_in.target \in DOMAIN TargetsInfo
     /\ parse_build_result(returncode, env.log) = "PASSED"
     /\ env.fs.kind = "missing")
    => /\ outcome = "returned"
       /\ br.result = "PASSED"
       /\ br.output = NoPath
       /\ warned

\* C12: parse_build_result gives a result kind for every exit code: 0 Passed,
\* 1 and 2 OtherErrors, 3 Errors, 4 Warnings unless the log upgrades it to
\* Passed, any other code Errors; never Timeout, and Passed only for 0 and
\* the upgraded 4.
C12_ExitCodeTable ==
    Classified
    => br.result =
         CASE returncode = <<0>> -> "PASSED"
           [] returncode \in {<<1>>, <<2>>} -> "OtherErrors"
           [] returncode = <<3>> -> "Errors"
           [] returncode = <<4>> ->
                IF /\ env.log.given
                   /\ env.log.exists
                   /\ env.log.readable
                   /\ PhraseFound(env.log.content)
                THEN "PASSED"
                ELSE "Warnings"
           [] OTHER -> "Errors"

\* The place of an extension in valid_extension; past the end for any other.
ExtensionRank(ext) ==
    IF ext \in Range(valid_extension)
    THEN CHOOSE i \in 1..Len(valid_extension) : valid_extension[i] = ext
    ELSE Len(valid_extension) + 1

\* The wraper got to the scan of an existing output directory.
ScannedDirectory ==
    /\ Classified
    /\ outcome = "returned"
    /\ br.result \in {"PASSED", "Warnings"}
    /\ b_in.target \in DOMAIN TargetsInfo
    /\ env.fs.kind = "dir"

\* The files of the scanned directory that carry one of the valid extensions.
Candidates == {f \in env.fs.files : f[2] \in Range(valid_extension)}

\* C13: on a Passed or Warnings result whose output location is an existing
\* directory, the adopted artifact is a file of that directory whose
\* extension comes earliest in valid_extension among the extensions present;
\* when no file has a valid extension no file is adopted, and the result kind
\* stays what the classification gave.
C13_EarliestExtensionAdopted ==
    ScannedDirectory
    => /\ br.result = parse_build_result(returncode, env.log)
       /\ IF Candidates = {}
          THEN br.output = TargetsInfo[b_in.target]
          ELSE \E f \in Candidates :
                 /\ br.output
                      = Workspace \o TargetsInfo[b_in.target] \o <<f[1], f[2]>>
                 /\ \A g \in Candidates :
                      ExtensionRank(f[2]) <= ExtensionRank(g[2])

\* A directory holding files of two valid extensions, the later one adopted
\* never, the earlier one adopted.
C13_Witness ==
    /\ ScannedDirectory
    /\ \E f, g \in Candidates :
         /\ ExtensionRank(f[2]) < ExtensionRank(g[2])
         /\ br.output = Workspace \o TargetsInfo[b_in.target] \o <<f[1], f[2]>>

----------------------------------------------------------------------------
(* Target resolution: specification and properties                         *)

\* A map_target call about to be made, the other components at rest.
TargetStart == TargetInit /\ NonTargetIdle

SpecTarget == TargetStart /\ [][TargetNext]_vars

\* C5: called with the exact name of a declared target, map_target returns
\* that name, whatever else is declared and in whatever order.
C5_DeclaredTargetMapsToItself ==
    (mpc = "done" /\ input_target \in Range(targets))
    => mapped = input_target

\* C6 as stated: a string that is not a declared name, not a word of one and
\* not a case-insensitive substring of one is refused with InvalidTarget.
C6_UnmatchedRawInputFails ==
    (/\ mpc = "done"
     /\ \A i \in 1..Len(targets) :
          /\ input_target # targets[i]
          /\ input_target \notin Range(Split(targets[i]))
          /\ ~IsSubstr(LowerStr(input_target), LowerStr(targets[i])))
    => mapped = InvalidTarget

\* The input, with surrounding blanks removed, matches no declared target:
\* not its name, not one of its words, not a case-insensitive substring.
Unmatched ==
    \A i \in 1..Len(targets) :
        /\ Strip(input_target) # targets[i]
        /\ Strip(input_target) \notin Range(Split(targets[i]))
        /\ ~IsSubstr(LowerStr(Strip(input_target)), LowerStr(targets[i]))

\* C6, amended: a string that after removal of surrounding blanks matches no
\* declared target is refused with InvalidTarget, and the call leaves the
\* project's targets as they were.
C6_UnmatchedStrippedInputFails ==
    [][(mpc = "call" /\ Unmatched)
       => (mapped' = InvalidTarget /\ targets' = targets)]_vars

\* A call with an unmatched input on a project that declares targets has
\* been made and was refused.
C6_Witness ==
    /\ mpc = "done"
    /\ Len(targets) > 0
    /\ Unmatched
    /\ mapped = InvalidTarget

----------------------------------------------------------------------------
(* Manifest version selection: specification and properties                *)

\* A find_max_version call about to be made, the other components at rest.
VersionStart == VersionInit /\ NonVersionIdle

SpecVersion == VersionStart /\ [][VersionNext]_vars

\* The versions of the manifests found, as a set.
FoundVersions == {found[i].format_version : i \in 1..Len(found)}

\* a is an earlier release than b or the same one, compared number by number
\* (3.8 before 3.10; 3 and 3.0 the same).  Stated on the numbers, without
\* the sort the code uses.
NotNewer(a, b) ==
    LET ra == Release(a, 0)
        rb == Release(b, 0)
        n == IF Len(ra) > Len(rb) THEN Len(ra) ELSE Len(rb)
        at(r, i) == IF i <= Len(r) THEN r[i] ELSE 0
    IN  \/ \A i \in 1..n : at(ra, i) = at(rb, i)
        \/ \E i \in 1..n : /\ at(ra, i) < at(rb, i)
                            /\ \A j \in 1..(i - 1) : at(ra, j) = at(rb, j)

\* C7: the selected manifest is one of those found and no manifest found has a
\* newer format version, in every discovery order; when the versions found
\* are 3.0, 3.1 and 3.8 the selected one is 3.8.
C7_MaxVersionSelected ==
    (vpc = "done" /\ found # <<>>)
    => /\ selected \in Range(found)
       /\ \A i \in 1..Len(found) :
            NotNewer(found[i].format_version, selected.format_version)
       /\ FoundVersions = {V30, V31, V38} => selected.format_version = V38

\* The call was made on manifests 3.0, 3.1 and 3.8 with 3.8 discovered first.
C7_Witness ==
    /\ vpc = "done"
    /\ FoundVersions = {V30, V31, V38}
    /\ found[1].format_version = V38
    /\ selected.format_version = V38

----------------------------------------------------------------------------
(* Linked projects: specification and properties                           *)

\* A manifest as parsed, no query made yet, the other components at rest.
LinkedStart == LinkedInit /\ NonLinkedIdle

SpecLinked == LinkedStart /\ [][LinkedNext]_vars

\* The ids of the chain that starts at the last call's argument.
ChainIds ==
    LET chain == get_linked_projects(examples, lp_arg, <<>>)
    IN  {examples[chain[k]].id : k \in 1..Len(chain)}

\* The manifest declares a slave core and the chain of the last call holds a
\* record whose id ends with its name.
SlaveInChain ==
    /\ lp_calls > 0
    /\ slave_core(cores) # NoAttr
    /\ \E id \in ChainIds : EndsWith(id, slave_core(cores))

\* C8: when a slave core is declared and the chain holds a record whose id
\* ends with the slave core name, find_linked_projects returns a list whose
\* first element is such a record, for every document order and chain length.
C8_SlaveProjectFirst ==
    SlaveInChain
    => /\ ~lp_result.raised
       /\ Len(lp_result.list) > 0
       /\ EndsWith(lp_result.list[1].id, slave_core(cores))

----------------------------------------------------------------------------
(* The Eclipse project parser: specification and properties                *)

EclipseStart == EclipseInit /\ NonEclipseIdle

SpecEclipse == EclipseStart /\ [][EclipseNext]_vars

\* C9: parsing a project with N build configurations yields exactly N
\* targets, and every configuration's target maps to '<dir>/<artifact>.<ext>'
\* with <dir> the build path without its variable-reference prefix (the
\* target name when there is no build path), <artifact> the artifact name
\* with the project-name placeholder replaced, <ext> the extension.
C9_EveryConfigurationIsATarget ==
    ecl_pc # "call"
    => /\ ecl_pc = "done"
       /\ Len(ecl_targets) = Len(ecl_configs)
       /\ \A i \in 1..Len(ecl_configs) :
            /\ target_name(ecl_configs[i]) \in DOMAIN ecl_conf
            /\ ecl_conf[target_name(ecl_configs[i])]
                  = output_path(ecl_configs[i], ecl_name)

\* The target names the vendor parser falls back to.
DefaultTargets ==
    << <<"D", "e", "b", "u", "g">>, <<"R", "e", "l", "e", "a", "s", "e">> >>

\* The targets property of the vendor Project (mcux/project.py lines
\* 302-312): list(self._targets) when that is not empty, else Debug and
\* Release.
Project_targets(_targets) ==
    IF _targets # <<>> THEN _targets ELSE DefaultTargets

\* C29: for every constructed project the list returned by targets equals the
\* key set of targetsinfo, so every target has a declared output path.
C29_TargetsAreTheKeysOfTargetsinfo ==
    ecl_pc = "done"
    => Range(Project_targets(ecl_targets)) = DOMAIN ecl_conf

----------------------------------------------------------------------------
(* The toolchain registry: specification and properties                    *)

RegistryStart == RegistryInit /\ NonRegistryIdle

SpecRegistry == RegistryStart /\ [][RegistryNext]_vars

\* C10: for every supported name compilerfactory returns that name's own
\* Compiler type with its Project attached; for every name that is not
\* registered, compilerfactory and factory both fail with ValueError.
C10_RegistryLookup ==
    reg_calls > 0
    => IF reg_call.name \in Range(SUPPORTED_TOOLCHAINS)
       THEN reg_call.fn = "compilerfactory"
            => /\ reg_outcome = Outcome("returned",
                                        <<reg_call.name, "Compiler">>)
               /\ reg_call.name \in attached
       ELSE reg_outcome.kind = "ValueError"

\* C11: every Project whose construction succeeded has a non-empty name and
\* at least one target.
C11_ConstructedProjectIsNamedWithTargets ==
    ecl_pc = "done" => (ecl_name # <<>> /\ Len(ecl_targets) >= 1)

----------------------------------------------------------------------------
(* The project scanner: specification and properties                       *)

ScanStart == ScanInit /\ NonScanIdle

SpecScan == ScanStart /\ [][ScanNext]_vars

\* Discovery is over: the mapping is built, filtered or not yet.
Discovered == scan_pc \in {"filter", "done"}

\* The projects of the mapping, whatever their toolchain.
AllProjects ==
    UNION {Range(projects[k]) : k \in DOMAIN projects}

\* Whether a toolchain's parser has a project to give for a directory.
HasGood(d, tool) ==
    \E i \in 1..Len(tree.content[d][tool]) : tree.content[d][tool][i] = "ok"

\* The place in IDE_INS of the first toolchain with a project for d, 0 if none.
Claimant(d) ==
    IF \E i \in 1..Len(IDE_INS) : HasGood(d, IDE_INS[i])
    THEN Least({i \in 1..Len(IDE_INS) : HasGood(d, IDE_INS[i])})
    ELSE 0

DeclaredByRootManifest ==
    UNION {Subtree(RootManifestFolders[i]) : i \in 1..Len(RootManifestFolders)}

\* C15: with a manifest directly under the scan root (under its parent when
\* the root is named 'boards'), only the subtrees that manifest declares are
\* searched.
C15_ManifestBoundsTheSearch ==
    (Discovered /\ ManifestAtSdkRoot(tree))
    => Range(scanned) \subseteq DeclaredByRootManifest

\* The exclusion list as described: the names the matcher holds, and the
\* version-control and settings directories.
DescribedAsExcluded(name) ==
    Exclude_Matcher(name) \/ name \in {".git", "settings"}

\* d is a folder with an excluded name, or lies below one.
InExcluded(d) ==
    \E e \in 1..3 : d \in Subtree(e) /\ DescribedAsExcluded(tree.names[e])

\* The call went through the recursive walk from the root.
WalkedFromRoot ==
    /\ Discovered
    /\ scan_in.recursive
    /\ ManifestAtSdkRoot(tree) \/ scan_in.listed = <<>>

\* C16: in a recursive walk no project is discovered in a directory matching
\* the exclusion list, nor in any directory below one.
C16_ExcludedSubtreesPruned ==
    WalkedFromRoot => \A p \in AllProjects : ~InExcluded(p.dir)

\* C17: the returned mapping holds exactly the discovered toolchains that are
\* in include_tools when it is given and not in exclude_tools when it is
\* given, both filters applying when both are given; the returned count is
\* the sum of the lengths of the returned lists.
C17_FiltersApplied ==
    [][(scan_pc = "filter" /\ scan_pc' = "done")
       => /\ DOMAIN projects'
               = {k \in DOMAIN projects :
                    /\ scan_filter'.include # {} => k \in scan_filter'.include
                    /\ scan_filter'.exclude # {} => k \notin scan_filter'.exclude}
          /\ \A k \in DOMAIN projects' : projects'[k] = projects[k]
          /\ count' = <<Total(projects', DOMAIN projects')>>]_vars

----------------------------------------------------------------------------
(* Build orchestration: the timer thread against the main thread           *)

\* C21: a build invocation raises ProcessTimeout only if the child was still
\* running when the timer fired; a child that had exited on its own before
\* the deadline is classified by its exit code, in every interleaving of the
\* timer thread with the main thread's wait, cancel and flag check.
C21_TimeoutOnlyWhileRunning ==
    outcome = "ProcessTimeout" => at_deadline = "running"

\* C22: when the operating-system process cannot be started, build_project
\* ends with an error for its caller and returns no BuildResult.
C22_FailedStartSurfacesError ==
    (pc = "done" /\ b_in.startFails)
    => (outcome \notin {"none", "returned"} /\ br = NoBr)

----------------------------------------------------------------------------
(* The upward manifest search: specification and properties                *)

ParentsStart == ParentsInit /\ NonParentsIdle

SpecParents == ParentsStart /\ [][ParentsNext]_vars

\* The manifest m is what a search that stops in the nearest directory of S
\* holding any manifest gives: a manifest of that directory than which none
\* there is newer, or nothing when no directory of S holds one.
NearestHighest(S, m) ==
    LET holding == {l \in S : levels[l] # <<>>}
    IN  IF holding = {} THEN m = NoManifest
        ELSE LET near == CHOOSE l \in holding : \A k \in holding : k <= l
             IN  /\ m \in Range(levels[near])
                 /\ \A i \in 1..Len(levels[near]) :
                      NotNewer(levels[near][i].format_version,
                               m.format_version)

\* C23 as stated: the search covers the starting directory and every
\* directory above it up to the filesystem root.
C23_NearestFromStartingDirectory ==
    fpc = "done" => NearestHighest(1..origin, located)

\* C23: find_from_parents returns the highest-version manifest of the nearest
\* directory above the starting directory that holds any manifest, whatever
\* the versions farther up, and nothing when no directory above the starting
\* one, up to the filesystem root, holds one; the starting directory itself
\* is not searched.
C23_NearestAncestorWins ==
    fpc = "done" => NearestHighest(1..(origin - 1), located)

\* The search started two levels below a directory holding a 3.8 manifest,
\* passed the starting directory's own manifest, and returned the 3.0
\* manifest of the directory in between.
C23_Witness ==
    /\ fpc = "done"
    /\ origin = 3
    /\ levels[3] # <<>>
    /\ \A i \in 1..Len(levels[2]) : levels[2][i].format_version = V30
    /\ levels[2] # <<>>
    /\ \E i \in 1..Len(levels[1]) : levels[1][i].format_version = V38
    /\ located \in Range(levels[2])

----------------------------------------------------------------------------
(* Queries on a shared manifest: specification and properties              *)

\* A manifest document on which find_linked_projects and find_example are
\* called in any order.
SpecManifest == LinkedStart /\ [][ManifestNext]_vars

\* The example record with the id of the last find_example call.
Queried == examples[find_example_node(examples, q_arg)]

\* C24: find_example returns the record of every example present in the
\* manifest, with or without an external XML reference, and nothing for an id
\* the manifest does not hold.
C24_FindExampleReturnsEveryRecord ==
    q_calls > 0
    => IF find_example_node(examples, q_arg) = 0
       THEN q_result.kind = "None"
       ELSE /\ q_result.kind = "info"
            /\ q_result.info.id = q_arg
            /\ q_result.info.example_xml = Queried.external

\* C26: the manifest is read-only under queries: no find_linked_projects or
\* find_example call changes what find_example returns for any example id.
C26_QueriesLeaveRecordsAlone ==
    [][\A id \in ExampleIds :
         manifest_find_example(examples', id)
           = manifest_find_example(examples, id)]_vars

\* The ids the manifest holds.
PresentIds == {examples[i].id : i \in 1..Len(examples)}

\* The linked_projects attribute of the example with the given id.
LinkOf(id) == examples[find_example_node(examples, id)].linked_projects

\* The ids of S and every id of the manifest reached from them by following
\* linked_projects references.
RECURSIVE LinkClosure(_)
LinkClosure(S) ==
    LET next == S \cup ({LinkOf(id) : id \in S} \cap PresentIds)
    IN  IF next = S THEN S ELSE LinkClosure(next)

\* The examples of the chain that starts at the last call's argument.
Chain == LinkClosure({lp_arg} \cap PresentIds)

\* C27: find_linked_projects ends for every manifest and starting id, a
\* linked_projects reference forming a cycle, naming the example itself or
\* naming an absent id included; the list it returns holds each example of
\* the chain exactly once (when a record of the chain lacks the external
\* reference the call ends with the AttributeError of _get_example_info).
C27_ChainWalkEndsWithEachExampleOnce ==
    lp_calls > 0
    => IF lp_result.raised
       THEN \E id \in Chain : ~examples[find_example_node(examples, id)].external
       ELSE /\ Len(lp_result.list) = Cardinality(Chain)
            /\ {lp_result.list[k].id : k \in 1..Len(lp_result.list)} = Chain

\* A call returned the two examples of a chain whose references form a cycle.
C27_Witness ==
    /\ lp_calls > 0
    /\ ~lp_result.raised
    /\ Cardinality(Chain) = 2
    /\ \A id \in Chain : LinkOf(id) \in Chain \ {id}
    /\ Len(lp_result.list) = 2

----------------------------------------------------------------------------
(* File discovery: specification and properties                            *)

FromdirStart == FromdirInit /\ NonFromdirIdle

SpecFromdir == FromdirStart /\ [][FromdirNext]_vars

\* The places of the files that match a pattern and whose construction
\* succeeds.
Constructible ==
    {i \in 1..Len(fd_path.files) :
        fd_path.files[i].matches /\ fd_path.files[i].construct = "ok"}

\* C25: on a directory, fromdir returns one Project for every file that
\* matches a glob pattern and whose construction succeeds, wherever the
\* directory lies; on a single file it skips a ProjectNotFound failure and
\* lets every other construction error reach the caller.
C25_FromdirReturnsEveryConstructible ==
    fd_pc = "done"
    => IF ~fd_path.is_file
       THEN /\ fd_result.raised = "none"
            /\ Range(fd_result.prjs) = Constructible
            /\ Len(fd_result.prjs) = Cardinality(Constructible)
       ELSE LET file == fd_path.files[1]
            IN  /\ (file.matches /\ file.construct = "ProjectNotFound")
                     => fd_result = Listed("none", <<>>)
                /\ (file.matches
                    /\ file.construct \notin {"ok", "ProjectNotFound"})
                     => fd_result.raised = file.construct

----------------------------------------------------------------------------
(* The manifest override: specification and properties                     *)

\* A fresh process: no override stored, no call made.
OverrideStart == OverrideIdle /\ NonOverrideIdle

SpecOverride == OverrideStart /\ [][OverrideNext]_vars

\* C28: after any earlier scans and constructions, a find_projects call that
\* finds manifest M directly under its root binds every package project it
\* parses to M.
C28_ScanBindsToItsOwnManifest ==
    (ov_last.op = "find_projects" /\ ov_last.root # "None")
    => \A k \in 1..Len(ov_last.bound) : ov_last.bound[k] = ov_last.root

----------------------------------------------------------------------------
(* Build properties: specification and properties                          *)

\* A package Project object just constructed.
PropsStart == PropsIdle /\ NonPropsIdle

SpecProps == PropsStart /\ [][PropsNext]_vars

\* C30: the properties file of a build holds the project's default
\* properties, with the build configuration of this call, overridden by
\* exactly the prefixed options of this call.
C30_FileDeterminedByThisCall ==
    bp_builds > 0
    => bp_file = DictUpdate(gen_properties(properties_init, bp_target),
                            user_properties(bp_kwargs))

----------------------------------------------------------------------------
(* Vendor package projects: specification and properties                   *)

PackageStart == PackageInit /\ NonPackageIdle

SpecPackage == PackageStart /\ [][PackageNext]_vars

\* C19: a package project is enabled exactly when the manifest's format
\* version is "3.1", or otherwise when the toolchain list of its example holds
\* this toolchain's name as an element; a project that is not a package is
\* always enabled.
C19_EnabledRule ==
    pkg_enabled # "unread"
    => pkg_enabled =
         IF ~pkg_obj.is_package THEN "True"
         ELSE IF pkg_world.format_version = Present(V31) THEN "True"
         ELSE IF Mcux \in Range(Split(attrib_get(pkg_world.example.toolchain,
                                                 <<>>)))
         THEN "True"
         ELSE "False"

\* The package file gave an example with a name and an id, so the constructor
\* went on to look for the manifest.
LookedForManifest ==
    /\ pkg_count > 0
    /\ pkg_call.kind = "package"
    /\ pkg_call.file = "ok"
    /\ pkg_call.name # Absent
    /\ attrib_get(pkg_call.id, <<>>) # <<>>

\* C20: constructing a package project fails with ProjectNotFound when no
\* manifest is located through the override or the ancestor search, and when
\* a manifest is located but the example is not enabled.
C20_FailsWithProjectNotFound ==
    LookedForManifest
    => /\ ~pkg_obj.sdkmanifest => pkg_outcome = "ProjectNotFound"
       /\ (pkg_obj.sdkmanifest /\ pkg_enabled = "False")
            => pkg_outcome = "ProjectNotFound"

====
